---------------------------- MODULE Spec2Model ----------------------------
(***************************************************************************)
(* The NeuroMasterBlaster codec: encodeStream (encode.cpp) followed by     *)
(* decodeStream (decode.cpp), with the adaptive arithmetic coder           *)
(* (arithmetic_coding.hpp), the probability model and the symbol           *)
(* quantizer (neuralink.hpp), the bit streams (bitstream.hpp) and the WAV  *)
(* header pass-through (wav.hpp).                                          *)
(*                                                                         *)
(* Numbers.  IntType is uint32_t.  TLC integers are 32-bit signed, so the  *)
(* products of forward_range and backward_value (up to 2^32 - 2^17) are    *)
(* evaluated by MulDiv, which splits one factor and never forms the whole  *)
(* product; TLC stops with an overflow error should an operand leave the   *)
(* range in which MulDiv is exact.  The model's doubles (mean, stdev) are  *)
(* kept as exact decimal fractions: every constant of update_state is a    *)
(* finite decimal, so after n adaptive updates mean = M / 10^n and         *)
(* stdev^2 = V / 10^(3n) with M, V natural numbers of unbounded size       *)
(* (sequences of base-10000 limbs).  The comparisons and the truncation of *)
(* update_state are evaluated on these exact values.                       *)
(***************************************************************************)
EXTENDS Integers, Sequences, FiniteSets, TLC

\* ------------------------------------------------------------------------
\* Program constants
\* ------------------------------------------------------------------------
NUM_SYMBOLS == 1025
MAX_FREQUENCY == 32767
MAX_CODE == 131071
Int25 == 32768
Int50 == 65536
Int75 == 98304
NUM_DIST == 4
STOP_SYMBOL == NUM_SYMBOLS - 1
HEADER_SIZE == 44
CODE_BITS == 17

\* ------------------------------------------------------------------------
\* Bounds of the model
\* ------------------------------------------------------------------------
\* Largest number of payload samples in an input of the round-trip runs.
MaxSamples == 3
\* Largest number of payload bytes of a file handed directly to the decoder.
MaxPayload == 3
\* Largest number of bits put into an OBitStream on its own.
MaxBits == 10
\* Largest number of update_state calls on a Model on its own.
MaxUpdates == 9
\* The decoder is followed through at most MaxSamples + MaxExtraDecode symbols.
MaxExtraDecode == 3

\* ------------------------------------------------------------------------
\* Natural numbers of unbounded size: little-endian sequences of limbs in
\* 0 .. Base-1 without leading zero limbs; <<>> is zero.
\* ------------------------------------------------------------------------
Base == 10000

RECURSIVE BNorm(_)
BNorm(a) ==
  IF a = <<>> THEN <<>>
  ELSE IF a[Len(a)] = 0 THEN BNorm(SubSeq(a, 1, Len(a) - 1))
  ELSE a

RECURSIVE BFromInt(_)
BFromInt(n) ==
  IF n = 0 THEN <<>> ELSE <<n % Base>> \o BFromInt(n \div Base)

Limb(a, i) == IF i <= Len(a) THEN a[i] ELSE 0

RECURSIVE BAddFrom(_, _, _, _)
BAddFrom(a, b, i, c) ==
  IF i > Len(a) /\ i > Len(b)
  THEN (IF c = 0 THEN <<>> ELSE <<c>>)
  ELSE LET s == Limb(a, i) + Limb(b, i) + c
       IN  <<s % Base>> \o BAddFrom(a, b, i + 1, s \div Base)

BAdd(a, b) == BAddFrom(a, b, 1, 0)

\* a - b for a >= b
RECURSIVE BSubFrom(_, _, _, _)
BSubFrom(a, b, i, borrow) ==
  IF i > Len(a) THEN <<>>
  ELSE LET s == a[i] - Limb(b, i) - borrow
       IN  IF s < 0
           THEN <<s + Base>> \o BSubFrom(a, b, i + 1, 1)
           ELSE <<s>> \o BSubFrom(a, b, i + 1, 0)

BSub(a, b) == BNorm(BSubFrom(a, b, 1, 0))

\* a * k for 0 <= k <= 100000
RECURSIVE BMulSmallFrom(_, _, _, _)
BMulSmallFrom(a, k, i, c) ==
  IF i > Len(a) THEN BFromInt(c)
  ELSE LET s == a[i] * k + c
       IN  <<s % Base>> \o BMulSmallFrom(a, k, i + 1, s \div Base)

BMulSmall(a, k) == BNorm(BMulSmallFrom(a, k, 1, 0))

RECURSIVE BMul(_, _)
BMul(a, b) ==
  IF b = <<>> THEN <<>>
  ELSE BNorm(BAdd(BMulSmall(a, b[1]), <<0>> \o BMul(a, Tail(b))))

\* -1, 0, 1 as a < b, a = b, a > b
RECURSIVE BCmpFrom(_, _, _)
BCmpFrom(a, b, i) ==
  IF i = 0 THEN 0
  ELSE IF a[i] < b[i] THEN -1
  ELSE IF a[i] > b[i] THEN 1
  ELSE BCmpFrom(a, b, i - 1)

BCmp(a, b) ==
  IF Len(a) < Len(b) THEN -1
  ELSE IF Len(a) > Len(b) THEN 1
  ELSE BCmpFrom(a, b, Len(a))

\* floor(a / k) for 1 <= k <= 100000
RECURSIVE BDivSmallFrom(_, _, _, _)
BDivSmallFrom(a, k, i, r) ==
  IF i = 0 THEN <<>>
  ELSE LET cur == r * Base + a[i]
       IN  BDivSmallFrom(a, k, i - 1, cur % k) \o <<cur \div k>>

BDivSmall(a, k) == BNorm(BDivSmallFrom(a, k, Len(a), 0))

RECURSIVE BPow10(_)
BPow10(n) == IF n = 0 THEN <<1>> ELSE BMulSmall(BPow10(n - 1), 10)

\* floor(a / 10^n)
RECURSIVE BDivPow10(_, _)
BDivPow10(a, n) == IF n = 0 THEN a ELSE BDivPow10(BDivSmall(a, 10), n - 1)

\* the value of a, for a below 2^31
RECURSIVE BToInt(_)
BToInt(a) == IF a = <<>> THEN 0 ELSE a[1] + Base * BToInt(Tail(a))

\* ------------------------------------------------------------------------
\* Symbol quantization (neuralink.hpp)
\* ------------------------------------------------------------------------
\* x / 64 with the rounding towards zero of the C++ division in place of the
\* shift: C9_QuantizerRoundTrip does not hold of it
ShiftRight6_TowardZero(x) == IF x >= 0 THEN x \div 64 ELSE -((-x) \div 64)

\* x >> 6 on a signed value: arithmetic shift, the floor of x / 64
\* (\div of TLA+ rounds towards minus infinity).
ShiftRight6(x) == x \div 64

\* the conversion to the return type SymbolType (uint16_t)
ToU16(x) == x % 65536

\* the conversion of a value to int16_t (two's complement)
ToI16(x) == ((x + 32768) % 65536) - 32768

\* the forward map with the offset 513: C10_PayloadSymbolRange does not hold
\* of it
neuralink_16bit_to_10bit_Offset513(x) == ToU16(ShiftRight6(x) + 513)

\* neuralink_16bit_to_10bit: (x >> 6) + 512 returned as SymbolType
neuralink_16bit_to_10bit(x) == ToU16(ShiftRight6(x) + 512)

\* temp = (u - 512 + 0.5) * (64.0 + 1009.0 / 16384.0) - 0.5
\*      = ((2u - 1023) * 1049585 - 16384) / 32768.
\* Every intermediate value is a dyadic fraction of fewer than 53 bits, so the
\* double computation is exact; std::trunc rounds towards zero.
TempNumerator(u) == (2 * u - 1023) * 1049585 - 16384

Trunc32768(n) == IF n >= 0 THEN n \div 32768 ELSE -((-n) \div 32768)

neuralink_10bit_to_16bit(u) == ToI16(Trunc32768(TempNumerator(u)))

\* ------------------------------------------------------------------------
\* Probability model (neuralink.hpp, class Model)
\* ------------------------------------------------------------------------
\* The four conditional cumulative frequency tables as the constructor fills
\* them: ccft[i][j] = (FrequencyType)(p / max_p * (MAX_FREQUENCY - NUM_SYMBOLS))
\* + j with p the blended normal cdf.  TLA+ sequences start at 1: the
\* element ccft[i][j] of the program is CcftAt(i, j).
ccft ==
  <<
  <<
    0, 8, 9, 10, 11, 12, 13, 14, 15, 16, 17, 18, 19, 20, 21, 22, 23, 24,
    25, 26, 27, 28, 29, 30, 31, 32, 33, 34, 35, 36, 37, 38, 39, 40, 41, 42,
    43, 44, 45, 46, 47, 48, 49, 50, 51, 52, 53, 54, 55, 56, 57, 58, 59, 60,
    61, 62, 63, 64, 65, 66, 67, 68, 69, 70, 71, 72, 73, 74, 75, 76, 77, 78,
    79, 80, 81, 82, 83, 84, 85, 86, 87, 88, 89, 90, 91, 92, 93, 94, 95, 96,
    97, 98, 99, 100, 101, 102, 103, 104, 105, 106, 107, 108, 109, 110, 111, 112, 113, 114,
    115, 116, 117, 118, 119, 120, 121, 122, 123, 124, 125, 126, 127, 128, 129, 130, 131, 132,
    133, 134, 135, 136, 137, 138, 139, 140, 141, 142, 143, 144, 145, 146, 147, 148, 149, 150,
    151, 152, 153, 154, 155, 156, 157, 158, 159, 160, 161, 162, 163, 164, 165, 166, 167, 168,
    169, 170, 171, 172, 173, 174, 175, 176, 177, 178, 179, 180, 181, 182, 183, 184, 185, 186,
    187, 188, 189, 190, 191, 192, 193, 194, 195, 196, 197, 198, 199, 200, 201, 202, 203, 204,
    205, 206, 207, 208, 209, 210, 211, 212, 213, 214, 215, 216, 217, 218, 219, 220, 221, 222,
    223, 224, 225, 226, 227, 228, 229, 230, 231, 232, 233, 234, 235, 236, 237, 238, 239, 240,
    241, 242, 243, 244, 245, 246, 247, 248, 249, 250, 251, 252, 253, 254, 255, 256, 257, 258,
    259, 260, 261, 262, 263, 264, 265, 266, 267, 268, 269, 270, 271, 272, 273, 274, 275, 276,
    277, 278, 279, 280, 281, 282, 283, 284, 285, 286, 287, 288, 289, 290, 291, 292, 293, 294,
    295, 296, 297, 298, 299, 300, 301, 302, 303, 304, 305, 306, 307, 308, 309, 310, 311, 312,
    313, 314, 315, 316, 317, 318, 319, 320, 321, 322, 323, 324, 325, 326, 327, 328, 329, 330,
    331, 332, 333, 334, 335, 336, 337, 338, 339, 340, 341, 342, 343, 344, 345, 346, 347, 348,
    349, 350, 351, 352, 353, 354, 355, 356, 357, 358, 359, 360, 361, 362, 363, 364, 365, 366,
    367, 368, 369, 370, 371, 372, 373, 374, 375, 376, 377, 378, 379, 380, 381, 382, 383, 384,
    385, 386, 387, 388, 389, 390, 391, 392, 393, 394, 395, 396, 397, 398, 399, 400, 401, 402,
    403, 404, 405, 406, 407, 408, 409, 410, 411, 412, 413, 414, 415, 416, 417, 418, 419, 420,
    421, 422, 423, 424, 425, 426, 427, 428, 429, 430, 431, 432, 433, 434, 435, 436, 437, 438,
    439, 440, 441, 442, 443, 444, 445, 446, 447, 448, 449, 450, 451, 452, 453, 454, 455, 456,
    457, 458, 459, 460, 461, 462, 463, 464, 465, 466, 467, 468, 469, 470, 471, 472, 473, 474,
    475, 476, 477, 478, 479, 480, 481, 482, 483, 484, 485, 486, 487, 488, 489, 490, 491, 492,
    493, 494, 496, 497, 498, 500, 503, 507, 515, 529, 554, 597, 669, 786, 970, 1247, 1651, 2217,
    2981, 3976, 5223, 6728, 8477, 10435, 12547, 18031, 20224, 22336, 24294, 26043, 27548, 28795, 29790, 30554, 31120, 31524,
    31801, 31985, 32102, 32174, 32217, 32242, 32256, 32264, 32268, 32271, 32273, 32274, 32275, 32276, 32277, 32278, 32279, 32280,
    32281, 32282, 32283, 32284, 32285, 32286, 32287, 32288, 32289, 32290, 32291, 32292, 32293, 32294, 32296, 32297, 32298, 32299,
    32300, 32301, 32302, 32303, 32304, 32305, 32306, 32307, 32308, 32309, 32310, 32311, 32312, 32313, 32314, 32315, 32316, 32317,
    32318, 32319, 32320, 32321, 32322, 32323, 32324, 32325, 32326, 32327, 32328, 32329, 32330, 32331, 32332, 32333, 32334, 32335,
    32336, 32337, 32338, 32339, 32340, 32341, 32342, 32343, 32344, 32345, 32346, 32347, 32348, 32349, 32350, 32351, 32352, 32353,
    32354, 32355, 32356, 32357, 32358, 32359, 32360, 32361, 32362, 32363, 32364, 32365, 32366, 32367, 32368, 32369, 32370, 32371,
    32372, 32373, 32374, 32375, 32376, 32377, 32378, 32379, 32380, 32381, 32382, 32383, 32384, 32385, 32386, 32387, 32388, 32389,
    32390, 32391, 32392, 32393, 32394, 32395, 32396, 32397, 32398, 32399, 32400, 32401, 32402, 32403, 32404, 32405, 32406, 32407,
    32408, 32409, 32410, 32411, 32412, 32413, 32414, 32415, 32416, 32417, 32418, 32419, 32420, 32421, 32422, 32423, 32424, 32425,
    32426, 32427, 32428, 32429, 32430, 32431, 32432, 32433, 32434, 32435, 32436, 32437, 32438, 32439, 32440, 32441, 32442, 32443,
    32444, 32445, 32446, 32447, 32448, 32449, 32450, 32451, 32452, 32453, 32454, 32455, 32456, 32457, 32458, 32459, 32460, 32461,
    32462, 32463, 32464, 32465, 32466, 32467, 32468, 32469, 32470, 32471, 32472, 32473, 32474, 32475, 32476, 32477, 32478, 32479,
    32480, 32481, 32482, 32483, 32484, 32485, 32486, 32487, 32488, 32489, 32490, 32491, 32492, 32493, 32494, 32495, 32496, 32497,
    32498, 32499, 32500, 32501, 32502, 32503, 32504, 32505, 32506, 32507, 32508, 32509, 32510, 32511, 32512, 32513, 32514, 32515,
    32516, 32517, 32518, 32519, 32520, 32521, 32522, 32523, 32524, 32525, 32526, 32527, 32528, 32529, 32530, 32531, 32532, 32533,
    32534, 32535, 32536, 32537, 32538, 32539, 32540, 32541, 32542, 32543, 32544, 32545, 32546, 32547, 32548, 32549, 32550, 32551,
    32552, 32553, 32554, 32555, 32556, 32557, 32558, 32559, 32560, 32561, 32562, 32563, 32564, 32565, 32566, 32567, 32568, 32569,
    32570, 32571, 32572, 32573, 32574, 32575, 32576, 32577, 32578, 32579, 32580, 32581, 32582, 32583, 32584, 32585, 32586, 32587,
    32588, 32589, 32590, 32591, 32592, 32593, 32594, 32595, 32596, 32597, 32598, 32599, 32600, 32601, 32602, 32603, 32604, 32605,
    32606, 32607, 32608, 32609, 32610, 32611, 32612, 32613, 32614, 32615, 32616, 32617, 32618, 32619, 32620, 32621, 32622, 32623,
    32624, 32625, 32626, 32627, 32628, 32629, 32630, 32631, 32632, 32633, 32634, 32635, 32636, 32637, 32638, 32639, 32640, 32641,
    32642, 32643, 32644, 32645, 32646, 32647, 32648, 32649, 32650, 32651, 32652, 32653, 32654, 32655, 32656, 32657, 32658, 32659,
    32660, 32661, 32662, 32663, 32664, 32665, 32666, 32667, 32668, 32669, 32670, 32671, 32672, 32673, 32674, 32675, 32676, 32677,
    32678, 32679, 32680, 32681, 32682, 32683, 32684, 32685, 32686, 32687, 32688, 32689, 32690, 32691, 32692, 32693, 32694, 32695,
    32696, 32697, 32698, 32699, 32700, 32701, 32702, 32703, 32704, 32705, 32706, 32707, 32708, 32709, 32710, 32711, 32712, 32713,
    32714, 32715, 32716, 32717, 32718, 32719, 32720, 32721, 32722, 32723, 32724, 32725, 32726, 32727, 32728, 32729, 32730, 32731,
    32732, 32733, 32734, 32735, 32736, 32737, 32738, 32739, 32740, 32741, 32742, 32743, 32744, 32745, 32746, 32747, 32748, 32749,
    32750, 32751, 32752, 32753, 32754, 32755, 32756, 32757, 32758, 32759, 32760, 32761, 32762, 32763, 32764, 32765, 32766, 32767
  >>,
  <<
    0, 8, 9, 10, 11, 12, 13, 14, 15, 16, 17, 18, 19, 20, 21, 22, 23, 24,
    25, 26, 27, 28, 29, 30, 31, 32, 33, 34, 35, 36, 37, 38, 39, 40, 41, 42,
    43, 44, 45, 46, 47, 48, 49, 50, 51, 52, 53, 54, 55, 56, 57, 58, 59, 60,
    61, 62, 63, 64, 65, 66, 67, 68, 69, 70, 71, 72, 73, 74, 75, 76, 77, 78,
    79, 80, 81, 82, 83, 84, 85, 86, 87, 88, 89, 90, 91, 92, 93, 94, 95, 96,
    97, 98, 99, 100, 101, 102, 103, 104, 105, 106, 107, 108, 109, 110, 111, 112, 113, 114,
    115, 116, 117, 118, 119, 120, 121, 122, 123, 124, 125, 126, 127, 128, 129, 130, 131, 132,
    133, 134, 135, 136, 137, 138, 139, 140, 141, 142, 143, 144, 145, 146, 147, 148, 149, 150,
    151, 152, 153, 154, 155, 156, 157, 158, 159, 160, 161, 162, 163, 164, 165, 166, 167, 168,
    169, 170, 171, 172, 173, 174, 175, 176, 177, 178, 179, 180, 181, 182, 183, 184, 185, 186,
    187, 188, 189, 190, 191, 192, 193, 194, 195, 196, 197, 198, 199, 200, 201, 202, 203, 204,
    205, 206, 207, 208, 209, 210, 211, 212, 213, 214, 215, 216, 217, 218, 219, 220, 221, 222,
    223, 224, 225, 226, 227, 228, 229, 230, 231, 232, 233, 234, 235, 236, 237, 238, 239, 240,
    241, 242, 243, 244, 245, 246, 247, 248, 249, 250, 251, 252, 253, 254, 255, 256, 257, 258,
    259, 260, 261, 262, 263, 264, 265, 266, 267, 268, 269, 270, 271, 272, 273, 274, 275, 276,
    277, 278, 279, 280, 281, 282, 283, 284, 285, 286, 287, 288, 289, 290, 291, 292, 293, 294,
    295, 296, 297, 298, 299, 300, 301, 302, 303, 304, 305, 306, 307, 308, 309, 310, 311, 312,
    313, 314, 315, 316, 317, 318, 319, 320, 321, 322, 323, 324, 325, 326, 327, 328, 329, 330,
    331, 332, 333, 334, 335, 336, 337, 338, 339, 340, 341, 342, 343, 344, 345, 346, 347, 348,
    349, 350, 351, 352, 353, 354, 355, 356, 357, 358, 359, 360, 361, 362, 363, 364, 365, 366,
    367, 368, 369, 370, 371, 372, 373, 374, 375, 376, 377, 378, 379, 380, 381, 382, 383, 384,
    385, 386, 387, 388, 389, 390, 391, 392, 393, 394, 395, 396, 397, 398, 399, 400, 401, 402,
    403, 404, 405, 406, 407, 408, 409, 410, 411, 412, 413, 414, 415, 416, 417, 418, 419, 420,
    421, 422, 423, 424, 425, 426, 427, 428, 429, 430, 431, 432, 433, 434, 435, 436, 437, 438,
    439, 440, 441, 442, 443, 444, 445, 446, 447, 448, 449, 450, 451, 452, 453, 454, 455, 456,
    457, 458, 459, 460, 461, 462, 463, 464, 465, 466, 467, 468, 469, 470, 471, 472, 473, 474,
    475, 476, 477, 478, 479, 480, 481, 482, 483, 484, 485, 486, 487, 488, 489, 490, 492, 493,
    494, 495, 497, 500, 505, 512, 523, 542, 572, 619, 692, 801, 961, 1189, 1504, 1931, 2491, 3208,
    4100, 5181, 6455, 7915, 9545, 11314, 13182, 17668, 19589, 21457, 23226, 24856, 26316, 27590, 28670, 29563, 30280, 30840,
    31267, 31582, 31810, 31970, 32079, 32152, 32199, 32229, 32248, 32259, 32266, 32271, 32273, 32275, 32277, 32278, 32279, 32280,
    32281, 32282, 32283, 32284, 32285, 32286, 32287, 32288, 32289, 32290, 32291, 32292, 32293, 32294, 32295, 32296, 32297, 32298,
    32299, 32300, 32301, 32303, 32304, 32305, 32306, 32307, 32308, 32309, 32310, 32311, 32312, 32313, 32314, 32315, 32316, 32317,
    32318, 32319, 32320, 32321, 32322, 32323, 32324, 32325, 32326, 32327, 32328, 32329, 32330, 32331, 32332, 32333, 32334, 32335,
    32336, 32337, 32338, 32339, 32340, 32341, 32342, 32343, 32344, 32345, 32346, 32347, 32348, 32349, 32350, 32351, 32352, 32353,
    32354, 32355, 32356, 32357, 32358, 32359, 32360, 32361, 32362, 32363, 32364, 32365, 32366, 32367, 32368, 32369, 32370, 32371,
    32372, 32373, 32374, 32375, 32376, 32377, 32378, 32379, 32380, 32381, 32382, 32383, 32384, 32385, 32386, 32387, 32388, 32389,
    32390, 32391, 32392, 32393, 32394, 32395, 32396, 32397, 32398, 32399, 32400, 32401, 32402, 32403, 32404, 32405, 32406, 32407,
    32408, 32409, 32410, 32411, 32412, 32413, 32414, 32415, 32416, 32417, 32418, 32419, 32420, 32421, 32422, 32423, 32424, 32425,
    32426, 32427, 32428, 32429, 32430, 32431, 32432, 32433, 32434, 32435, 32436, 32437, 32438, 32439, 32440, 32441, 32442, 32443,
    32444, 32445, 32446, 32447, 32448, 32449, 32450, 32451, 32452, 32453, 32454, 32455, 32456, 32457, 32458, 32459, 32460, 32461,
    32462, 32463, 32464, 32465, 32466, 32467, 32468, 32469, 32470, 32471, 32472, 32473, 32474, 32475, 32476, 32477, 32478, 32479,
    32480, 32481, 32482, 32483, 32484, 32485, 32486, 32487, 32488, 32489, 32490, 32491, 32492, 32493, 32494, 32495, 32496, 32497,
    32498, 32499, 32500, 32501, 32502, 32503, 32504, 32505, 32506, 32507, 32508, 32509, 32510, 32511, 32512, 32513, 32514, 32515,
    32516, 32517, 32518, 32519, 32520, 32521, 32522, 32523, 32524, 32525, 32526, 32527, 32528, 32529, 32530, 32531, 32532, 32533,
    32534, 32535, 32536, 32537, 32538, 32539, 32540, 32541, 32542, 32543, 32544, 32545, 32546, 32547, 32548, 32549, 32550, 32551,
    32552, 32553, 32554, 32555, 32556, 32557, 32558, 32559, 32560, 32561, 32562, 32563, 32564, 32565, 32566, 32567, 32568, 32569,
    32570, 32571, 32572, 32573, 32574, 32575, 32576, 32577, 32578, 32579, 32580, 32581, 32582, 32583, 32584, 32585, 32586, 32587,
    32588, 32589, 32590, 32591, 32592, 32593, 32594, 32595, 32596, 32597, 32598, 32599, 32600, 32601, 32602, 32603, 32604, 32605,
    32606, 32607, 32608, 32609, 32610, 32611, 32612, 32613, 32614, 32615, 32616, 32617, 32618, 32619, 32620, 32621, 32622, 32623,
    32624, 32625, 32626, 32627, 32628, 32629, 32630, 32631, 32632, 32633, 32634, 32635, 32636, 32637, 32638, 32639, 32640, 32641,
    32642, 32643, 32644, 32645, 32646, 32647, 32648, 32649, 32650, 32651, 32652, 32653, 32654, 32655, 32656, 32657, 32658, 32659,
    32660, 32661, 32662, 32663, 32664, 32665, 32666, 32667, 32668, 32669, 32670, 32671, 32672, 32673, 32674, 32675, 32676, 32677,
    32678, 32679, 32680, 32681, 32682, 32683, 32684, 32685, 32686, 32687, 32688, 32689, 32690, 32691, 32692, 32693, 32694, 32695,
    32696, 32697, 32698, 32699, 32700, 32701, 32702, 32703, 32704, 32705, 32706, 32707, 32708, 32709, 32710, 32711, 32712, 32713,
    32714, 32715, 32716, 32717, 32718, 32719, 32720, 32721, 32722, 32723, 32724, 32725, 32726, 32727, 32728, 32729, 32730, 32731,
    32732, 32733, 32734, 32735, 32736, 32737, 32738, 32739, 32740, 32741, 32742, 32743, 32744, 32745, 32746, 32747, 32748, 32749,
    32750, 32751, 32752, 32753, 32754, 32755, 32756, 32757, 32758, 32759, 32760, 32761, 32762, 32763, 32764, 32765, 32766, 32767
  >>,
  <<
    0, 8, 9, 10, 11, 12, 13, 14, 15, 16, 17, 18, 19, 20, 21, 22, 23, 24,
    25, 26, 27, 28, 29, 30, 31, 32, 33, 34, 35, 36, 37, 38, 39, 40, 41, 42,
    43, 44, 45, 46, 47, 48, 49, 50, 51, 52, 53, 54, 55, 56, 57, 58, 59, 60,
    61, 62, 63, 64, 65, 66, 67, 68, 69, 70, 71, 72, 73, 74, 75, 76, 77, 78,
    79, 80, 81, 82, 83, 84, 85, 86, 87, 88, 89, 90, 91, 92, 93, 94, 95, 96,
    97, 98, 99, 100, 101, 102, 103, 104, 105, 106, 107, 108, 109, 110, 111, 112, 113, 114,
    115, 116, 117, 118, 119, 120, 121, 122, 123, 124, 125, 126, 127, 128, 129, 130, 131, 132,
    133, 134, 135, 136, 137, 138, 139, 140, 141, 142, 143, 144, 145, 146, 147, 148, 149, 150,
    151, 152, 153, 154, 155, 156, 157, 158, 159, 160, 161, 162, 163, 164, 165, 166, 167, 168,
    169, 170, 171, 172, 173, 174, 175, 176, 177, 178, 179, 180, 181, 182, 183, 184, 185, 186,
    187, 188, 189, 190, 191, 192, 193, 194, 195, 196, 197, 198, 199, 200, 201, 202, 203, 204,
    205, 206, 207, 208, 209, 210, 211, 212, 213, 214, 215, 216, 217, 218, 219, 220, 221, 222,
    223, 224, 225, 226, 227, 228, 229, 230, 231, 232, 233, 234, 235, 236, 237, 238, 239, 240,
    241, 242, 243, 244, 245, 246, 247, 248, 249, 250, 251, 252, 253, 254, 255, 256, 257, 258,
    259, 260, 261, 262, 263, 264, 265, 266, 267, 268, 269, 270, 271, 272, 273, 274, 275, 276,
    277, 278, 279, 280, 281, 282, 283, 284, 285, 286, 287, 288, 289, 290, 291, 292, 293, 294,
    295, 296, 297, 298, 299, 300, 301, 302, 303, 304, 305, 306, 307, 308, 309, 310, 311, 312,
    313, 314, 315, 316, 317, 318, 319, 320, 321, 322, 323, 324, 325, 326, 327, 328, 329, 330,
    331, 332, 333, 334, 335, 336, 337, 338, 339, 340, 341, 342, 343, 344, 345, 346, 347, 348,
    349, 350, 351, 352, 353, 354, 355, 356, 357, 358, 359, 360, 361, 362, 363, 364, 365, 366,
    367, 368, 369, 370, 371, 372, 373, 374, 375, 376, 377, 378, 379, 380, 381, 382, 383, 384,
    385, 386, 387, 388, 389, 390, 391, 392, 393, 394, 395, 396, 397, 398, 399, 400, 401, 402,
    403, 404, 405, 406, 407, 408, 409, 410, 411, 412, 413, 414, 415, 416, 417, 418, 419, 420,
    421, 422, 423, 424, 425, 426, 427, 428, 429, 430, 431, 432, 433, 434, 435, 436, 437, 438,
    439, 440, 441, 442, 443, 444, 445, 446, 447, 448, 449, 450, 451, 452, 453, 454, 455, 456,
    457, 458, 459, 460, 461, 462, 463, 464, 465, 466, 467, 468, 469, 470, 471, 472, 473, 474,
    475, 476, 477, 478, 480, 481, 482, 483, 484, 485, 487, 489, 492, 495, 500, 506, 515, 527,
    545, 569, 602, 646, 706, 786, 890, 1025, 1197, 1414, 1684, 2015, 2416, 2894, 3458, 4113, 4863, 5712,
    6659, 7701, 8832, 10043, 11322, 12654, 14024, 17359, 18747, 20116, 21449, 22728, 23939, 25070, 26112, 27059, 27908, 28658,
    29313, 29877, 30355, 30756, 31087, 31357, 31574, 31746, 31881, 31985, 32065, 32125, 32169, 32202, 32226, 32243, 32256, 32265,
    32271, 32276, 32279, 32282, 32284, 32285, 32287, 32288, 32289, 32290, 32291, 32292, 32293, 32294, 32295, 32296, 32297, 32298,
    32299, 32300, 32301, 32302, 32303, 32304, 32305, 32306, 32307, 32308, 32309, 32310, 32311, 32312, 32313, 32314, 32315, 32316,
    32317, 32318, 32319, 32320, 32321, 32322, 32324, 32325, 32326, 32327, 32328, 32329, 32330, 32331, 32332, 32333, 32334, 32335,
    32336, 32337, 32338, 32339, 32340, 32341, 32342, 32343, 32344, 32345, 32346, 32347, 32348, 32349, 32350, 32351, 32352, 32353,
    32354, 32355, 32356, 32357, 32358, 32359, 32360, 32361, 32362, 32363, 32364, 32365, 32366, 32367, 32368, 32369, 32370, 32371,
    32372, 32373, 32374, 32375, 32376, 32377, 32378, 32379, 32380, 32381, 32382, 32383, 32384, 32385, 32386, 32387, 32388, 32389,
    32390, 32391, 32392, 32393, 32394, 32395, 32396, 32397, 32398, 32399, 32400, 32401, 32402, 32403, 32404, 32405, 32406, 32407,
    32408, 32409, 32410, 32411, 32412, 32413, 32414, 32415, 32416, 32417, 32418, 32419, 32420, 32421, 32422, 32423, 32424, 32425,
    32426, 32427, 32428, 32429, 32430, 32431, 32432, 32433, 32434, 32435, 32436, 32437, 32438, 32439, 32440, 32441, 32442, 32443,
    32444, 32445, 32446, 32447, 32448, 32449, 32450, 32451, 32452, 32453, 32454, 32455, 32456, 32457, 32458, 32459, 32460, 32461,
    32462, 32463, 32464, 32465, 32466, 32467, 32468, 32469, 32470, 32471, 32472, 32473, 32474, 32475, 32476, 32477, 32478, 32479,
    32480, 32481, 32482, 32483, 32484, 32485, 32486, 32487, 32488, 32489, 32490, 32491, 32492, 32493, 32494, 32495, 32496, 32497,
    32498, 32499, 32500, 32501, 32502, 32503, 32504, 32505, 32506, 32507, 32508, 32509, 32510, 32511, 32512, 32513, 32514, 32515,
    32516, 32517, 32518, 32519, 32520, 32521, 32522, 32523, 32524, 32525, 32526, 32527, 32528, 32529, 32530, 32531, 32532, 32533,
    32534, 32535, 32536, 32537, 32538, 32539, 32540, 32541, 32542, 32543, 32544, 32545, 32546, 32547, 32548, 32549, 32550, 32551,
    32552, 32553, 32554, 32555, 32556, 32557, 32558, 32559, 32560, 32561, 32562, 32563, 32564, 32565, 32566, 32567, 32568, 32569,
    32570, 32571, 32572, 32573, 32574, 32575, 32576, 32577, 32578, 32579, 32580, 32581, 32582, 32583, 32584, 32585, 32586, 32587,
    32588, 32589, 32590, 32591, 32592, 32593, 32594, 32595, 32596, 32597, 32598, 32599, 32600, 32601, 32602, 32603, 32604, 32605,
    32606, 32607, 32608, 32609, 32610, 32611, 32612, 32613, 32614, 32615, 32616, 32617, 32618, 32619, 32620, 32621, 32622, 32623,
    32624, 32625, 32626, 32627, 32628, 32629, 32630, 32631, 32632, 32633, 32634, 32635, 32636, 32637, 32638, 32639, 32640, 32641,
    32642, 32643, 32644, 32645, 32646, 32647, 32648, 32649, 32650, 32651, 32652, 32653, 32654, 32655, 32656, 32657, 32658, 32659,
    32660, 32661, 32662, 32663, 32664, 32665, 32666, 32667, 32668, 32669, 32670, 32671, 32672, 32673, 32674, 32675, 32676, 32677,
    32678, 32679, 32680, 32681, 32682, 32683, 32684, 32685, 32686, 32687, 32688, 32689, 32690, 32691, 32692, 32693, 32694, 32695,
    32696, 32697, 32698, 32699, 32700, 32701, 32702, 32703, 32704, 32705, 32706, 32707, 32708, 32709, 32710, 32711, 32712, 32713,
    32714, 32715, 32716, 32717, 32718, 32719, 32720, 32721, 32722, 32723, 32724, 32725, 32726, 32727, 32728, 32729, 32730, 32731,
    32732, 32733, 32734, 32735, 32736, 32737, 32738, 32739, 32740, 32741, 32742, 32743, 32744, 32745, 32746, 32747, 32748, 32749,
    32750, 32751, 32752, 32753, 32754, 32755, 32756, 32757, 32758, 32759, 32760, 32761, 32762, 32763, 32764, 32765, 32766, 32767
  >>,
  <<
    0, 8, 9, 10, 11, 12, 13, 14, 15, 16, 17, 18, 19, 20, 21, 22, 23, 24,
    25, 26, 27, 28, 29, 30, 31, 32, 33, 34, 35, 36, 37, 38, 39, 40, 41, 42,
    43, 44, 45, 46, 47, 48, 49, 50, 51, 52, 53, 54, 55, 56, 57, 58, 59, 60,
    61, 62, 63, 64, 65, 66, 67, 68, 69, 70, 71, 72, 73, 74, 75, 76, 77, 78,
    79, 80, 81, 82, 83, 84, 85, 86, 87, 88, 89, 90, 91, 92, 93, 94, 95, 96,
    97, 98, 99, 100, 101, 102, 103, 104, 105, 106, 107, 108, 109, 110, 111, 112, 113, 114,
    115, 116, 117, 118, 119, 120, 121, 122, 123, 124, 125, 126, 127, 128, 129, 130, 131, 132,
    133, 134, 135, 136, 137, 138, 139, 140, 141, 142, 143, 144, 145, 146, 147, 148, 149, 150,
    151, 152, 153, 154, 155, 156, 157, 158, 159, 160, 161, 162, 163, 164, 165, 166, 167, 168,
    169, 170, 171, 172, 173, 174, 175, 176, 177, 178, 179, 180, 181, 182, 183, 184, 185, 186,
    187, 188, 189, 190, 191, 192, 193, 194, 195, 196, 197, 198, 199, 200, 201, 202, 203, 204,
    205, 206, 207, 208, 209, 210, 211, 212, 213, 214, 215, 216, 217, 218, 219, 220, 221, 222,
    223, 224, 225, 226, 227, 228, 229, 230, 231, 232, 233, 234, 235, 236, 237, 238, 239, 240,
    241, 242, 243, 244, 245, 246, 247, 248, 249, 250, 251, 252, 253, 254, 255, 256, 257, 258,
    259, 260, 261, 262, 263, 264, 265, 266, 267, 268, 269, 270, 271, 272, 273, 274, 275, 276,
    277, 278, 279, 280, 281, 282, 283, 284, 285, 286, 287, 288, 289, 290, 291, 292, 293, 294,
    295, 296, 297, 298, 299, 300, 301, 302, 303, 304, 305, 306, 307, 308, 309, 310, 311, 312,
    313, 314, 315, 316, 317, 318, 319, 320, 321, 322, 323, 324, 325, 326, 327, 328, 329, 330,
    331, 332, 333, 334, 335, 336, 337, 338, 339, 340, 341, 342, 343, 344, 345, 346, 347, 348,
    349, 350, 351, 352, 353, 354, 355, 356, 357, 358, 359, 360, 361, 362, 363, 364, 365, 366,
    367, 368, 369, 370, 371, 372, 373, 374, 375, 376, 377, 378, 379, 380, 381, 382, 383, 384,
    385, 386, 387, 388, 389, 390, 391, 392, 393, 394, 395, 396, 397, 398, 399, 400, 401, 402,
    403, 404, 405, 406, 407, 408, 409, 410, 411, 412, 413, 414, 415, 416, 417, 418, 419, 420,
    421, 422, 423, 424, 425, 427, 428, 429, 430, 431, 432, 433, 434, 435, 436, 437, 438, 439,
    441, 442, 443, 445, 446, 448, 449, 451, 453, 456, 458, 461, 464, 467, 471, 475, 480, 486,
    492, 500, 508, 517, 528, 540, 554, 570, 588, 608, 631, 657, 686, 719, 756, 797, 843, 895,
    952, 1016, 1087, 1165, 1251, 1346, 1450, 1564, 1689, 1825, 1973, 2134, 2307, 2495, 2697, 2914, 3147, 3395,
    3661, 3943, 4243, 4560, 4895, 5247, 5618, 6007, 6413, 6837, 7278, 7736, 8210, 8699, 9203, 9722, 10253, 10796,
    11350, 11914, 12487, 13066, 13651, 14241, 14834, 17343, 17937, 18530, 19120, 19705, 20284, 20857, 21421, 21975, 22518, 23049,
    23568, 24072, 24561, 25035, 25493, 25934, 26358, 26764, 27153, 27524, 27876, 28211, 28528, 28828, 29110, 29375, 29624, 29857,
    30074, 30276, 30464, 30637, 30798, 30946, 31082, 31207, 31321, 31425, 31520, 31606, 31684, 31755, 31819, 31876, 31928, 31974,
    32015, 32052, 32085, 32114, 32140, 32163, 32183, 32201, 32217, 32231, 32243, 32254, 32263, 32271, 32279, 32285, 32290, 32295,
    32300, 32304, 32307, 32310, 32313, 32315, 32318, 32320, 32321, 32323, 32325, 32326, 32328, 32329, 32330, 32332, 32333, 32334,
    32335, 32336, 32337, 32338, 32339, 32340, 32341, 32342, 32343, 32344, 32345, 32346, 32347, 32348, 32349, 32350, 32351, 32352,
    32353, 32354, 32355, 32356, 32357, 32358, 32359, 32360, 32361, 32362, 32363, 32364, 32365, 32366, 32367, 32368, 32369, 32370,
    32371, 32372, 32373, 32374, 32375, 32376, 32377, 32378, 32379, 32380, 32381, 32382, 32383, 32384, 32385, 32386, 32387, 32388,
    32389, 32390, 32391, 32392, 32393, 32394, 32395, 32396, 32397, 32398, 32399, 32400, 32401, 32402, 32403, 32404, 32405, 32406,
    32407, 32408, 32409, 32410, 32411, 32412, 32413, 32414, 32415, 32416, 32417, 32419, 32420, 32421, 32422, 32423, 32424, 32425,
    32426, 32427, 32428, 32429, 32430, 32431, 32432, 32433, 32434, 32435, 32436, 32437, 32438, 32439, 32440, 32441, 32442, 32443,
    32444, 32445, 32446, 32447, 32448, 32449, 32450, 32451, 32452, 32453, 32454, 32455, 32456, 32457, 32458, 32459, 32460, 32461,
    32462, 32463, 32464, 32465, 32466, 32467, 32468, 32469, 32470, 32471, 32472, 32473, 32474, 32475, 32476, 32477, 32478, 32479,
    32480, 32481, 32482, 32483, 32484, 32485, 32486, 32487, 32488, 32489, 32490, 32491, 32492, 32493, 32494, 32495, 32496, 32497,
    32498, 32499, 32500, 32501, 32502, 32503, 32504, 32505, 32506, 32507, 32508, 32509, 32510, 32511, 32512, 32513, 32514, 32515,
    32516, 32517, 32518, 32519, 32520, 32521, 32522, 32523, 32524, 32525, 32526, 32527, 32528, 32529, 32530, 32531, 32532, 32533,
    32534, 32535, 32536, 32537, 32538, 32539, 32540, 32541, 32542, 32543, 32544, 32545, 32546, 32547, 32548, 32549, 32550, 32551,
    32552, 32553, 32554, 32555, 32556, 32557, 32558, 32559, 32560, 32561, 32562, 32563, 32564, 32565, 32566, 32567, 32568, 32569,
    32570, 32571, 32572, 32573, 32574, 32575, 32576, 32577, 32578, 32579, 32580, 32581, 32582, 32583, 32584, 32585, 32586, 32587,
    32588, 32589, 32590, 32591, 32592, 32593, 32594, 32595, 32596, 32597, 32598, 32599, 32600, 32601, 32602, 32603, 32604, 32605,
    32606, 32607, 32608, 32609, 32610, 32611, 32612, 32613, 32614, 32615, 32616, 32617, 32618, 32619, 32620, 32621, 32622, 32623,
    32624, 32625, 32626, 32627, 32628, 32629, 32630, 32631, 32632, 32633, 32634, 32635, 32636, 32637, 32638, 32639, 32640, 32641,
    32642, 32643, 32644, 32645, 32646, 32647, 32648, 32649, 32650, 32651, 32652, 32653, 32654, 32655, 32656, 32657, 32658, 32659,
    32660, 32661, 32662, 32663, 32664, 32665, 32666, 32667, 32668, 32669, 32670, 32671, 32672, 32673, 32674, 32675, 32676, 32677,
    32678, 32679, 32680, 32681, 32682, 32683, 32684, 32685, 32686, 32687, 32688, 32689, 32690, 32691, 32692, 32693, 32694, 32695,
    32696, 32697, 32698, 32699, 32700, 32701, 32702, 32703, 32704, 32705, 32706, 32707, 32708, 32709, 32710, 32711, 32712, 32713,
    32714, 32715, 32716, 32717, 32718, 32719, 32720, 32721, 32722, 32723, 32724, 32725, 32726, 32727, 32728, 32729, 32730, 32731,
    32732, 32733, 32734, 32735, 32736, 32737, 32738, 32739, 32740, 32741, 32742, 32743, 32744, 32745, 32746, 32747, 32748, 32749,
    32750, 32751, 32752, 32753, 32754, 32755, 32756, 32757, 32758, 32759, 32760, 32761, 32762, 32763, 32764, 32765, 32766, 32767
  >>
  >>

\* the tables without the term + j of the constructor: C15_Tables does not
\* hold of them
CcftAt_NoOffset(d, j) == ccft[d + 1][j + 1] - j

\* ccft[d][j]
CcftAt(d, j) == ccft[d + 1][j + 1]

\* the levels with 17 for the first: C16_Alternating does not hold of them
std_levels_From17 == <<17, 18, 20, 22>>

\* std_levels = {16, 18, 20, 22}
std_levels == <<16, 18, 20, 22>>

\* The members of Model with their initial values: mean = 511, stdev = 8.0
\* (variance = stdev^2 = 64), active_dist = 0, active_symbol_shift = 0,
\* outlier_counter = 0.  scale is the number n of adaptive updates so far:
\* mean holds mean * 10^n and variance holds stdev^2 * 10^(3n).
ModelInit ==
  [ mean |-> BFromInt(511), variance |-> BFromInt(64), scale |-> 0,
    outlier_counter |-> 0, active_dist |-> 0, active_symbol_shift |-> 0 ]

\* loc = (symbol + NUM_SYMBOLS + active_symbol_shift) % NUM_SYMBOLS
SymbolLoc(m, symbol) ==
  (symbol + NUM_SYMBOLS + m.active_symbol_shift) % NUM_SYMBOLS

\* symbol_low_high: the pair <<low, high>> of the symbol's interval
symbol_low_high(m, symbol) ==
  LET loc == SymbolLoc(m, symbol)
  IN  << CcftAt(m.active_dist, loc), CcftAt(m.active_dist, loc + 1) >>

\* std::upper_bound over ccft[d][0 .. NUM_SYMBOLS]: the index of the first
\* element greater than freq (NUM_SYMBOLS + 1 when there is none), found by
\* the bisection of the standard library.
RECURSIVE upper_bound(_, _, _, _)
upper_bound(d, freq, first, count) ==
  IF count = 0 THEN first
  ELSE LET step == count \div 2
           it   == first + step
       IN  IF ~(freq < CcftAt(d, it))
           THEN upper_bound(d, freq, it + 1, count - (step + 1))
           ELSE upper_bound(d, freq, first, step)

\* frequency_symbol adding the shift instead of subtracting it:
\* C19_LookupInverse does not hold of it
frequency_symbol_PlusShift(m, f) ==
  LET freq == ToU16(f)
      it   == upper_bound(m.active_dist, freq, 0, NUM_SYMBOLS + 1)
      loc  == IF it = 0 THEN 0 ELSE it - 1
  IN  ToU16((loc + NUM_SYMBOLS + m.active_symbol_shift) % NUM_SYMBOLS)

\* frequency_symbol; the parameter is a FrequencyType (uint16_t)
frequency_symbol(m, f) ==
  LET freq == ToU16(f)
      it   == upper_bound(m.active_dist, freq, 0, NUM_SYMBOLS + 1)
      loc  == IF it = 0 THEN 0 ELSE it - 1
  IN  ToU16((loc + NUM_SYMBOLS - m.active_symbol_shift) % NUM_SYMBOLS)

\* std::lower_bound(std_levels, stdev): the number of levels below stdev,
\* compared as level^2 * 10^(3n) < variance * 10^(3n)
RECURSIVE lower_bound(_, _, _)
lower_bound(v, n, i) ==
  IF i > NUM_DIST THEN NUM_DIST
  ELSE IF BCmp(BMulSmall(BPow10(3 * n), std_levels[i] * std_levels[i]), v) < 0
       THEN lower_bound(v, n, i + 1)
       ELSE i - 1

Min(a, b) == IF a < b THEN a ELSE b

\* The members ltv = 7.5, alpha = 0.725 and beta = 0.175, in thousandths.
ltv == 7500
alpha == 725
beta == 175

\* omega as the product ltv * (1 - alpha - beta), in thousandths: C20_Omega
\* does not hold of it
omega_Product == (ltv * (1000 - alpha - beta)) \div 1000

\* omega = ltv / (1 - alpha - beta), set by the constructor, in thousandths:
\* 75000, that is 75.  (The double quotient is 74.99999999999997; the
\* difference is below the resolution of every comparison of update_state on
\* the inputs considered.)
omega == (ltv * 1000) \div (1000 - alpha - beta)

\* update_state with the counter reset once it exceeds 2: C18_OutlierFilter
\* does not hold of it
update_state_ResetAfter2(m, symbol) ==
  LET n    == m.scale
      S    == BMulSmall(BPow10(n), symbol)
      d    == IF BCmp(S, m.mean) >= 0 THEN BSub(S, m.mean) ELSE BSub(m.mean, S)
      d2   == BMul(d, d)
      d2n  == BMul(d2, BPow10(n))
      isOutlier == BCmp(BMulSmall(d2n, 100), BMulSmall(m.variance, 7056)) > 0
      c1   == IF isOutlier THEN m.outlier_counter + 1 ELSE 0
      cnt  == IF c1 > 2 THEN 0 ELSE c1
      M1   == BAdd(BMulSmall(m.mean, 2), BMulSmall(S, 8))
      V1   == BAdd(BAdd(BMulSmall(BPow10(3 * n), omega),
                        BMulSmall(m.variance, alpha)),
                   BMulSmall(d2n, beta))
      dist == Min(lower_bound(V1, n + 1, 1), NUM_DIST - 1)
      x    == BAdd(BMulSmall(M1, 95), BMulSmall(BPow10(n + 1), 5 * symbol))
      t    == ToU16(BToInt(BDivPow10(x, n + 3)))
  IN  IF cnt = 0
      THEN [ mean |-> M1, variance |-> V1, scale |-> n + 1,
             outlier_counter |-> 0, active_dist |-> dist,
             active_symbol_shift |-> ToI16(511 - t) ]
      ELSE [ m EXCEPT !.outlier_counter = cnt ]

\* update_state.  With n = m.scale, S = symbol * 10^n and d = |S - mean|:
\*   |ds| > outlier_level * stdev   <=>  100 * d^2 * 10^n > 7056 * variance
\*   mean'  = ma * mean + (1 - ma) * symbol          = (2 M + 8 S) / 10^(n+1)
\*   stdev'^2 = omega + alpha stdev^2 + beta ds^2
\*            = (omega 10^(3n) + alpha V + beta d^2 10^n) / 10^(3n+3)
\*   with omega, alpha and beta in thousandths
\*   mean' + (symbol - mean') * mrr = (95 M' + 5 symbol 10^(n+1)) / 10^(n+3)
update_state(m, symbol) ==
  LET n    == m.scale
      S    == BMulSmall(BPow10(n), symbol)
      d    == IF BCmp(S, m.mean) >= 0 THEN BSub(S, m.mean) ELSE BSub(m.mean, S)
      d2   == BMul(d, d)
      d2n  == BMul(d2, BPow10(n))
      isOutlier == BCmp(BMulSmall(d2n, 100), BMulSmall(m.variance, 7056)) > 0
      c1   == IF isOutlier THEN m.outlier_counter + 1 ELSE 0
      cnt  == IF c1 > 3 THEN 0 ELSE c1
      M1   == BAdd(BMulSmall(m.mean, 2), BMulSmall(S, 8))
      V1   == BAdd(BAdd(BMulSmall(BPow10(3 * n), omega),
                        BMulSmall(m.variance, alpha)),
                   BMulSmall(d2n, beta))
      dist == Min(lower_bound(V1, n + 1, 1), NUM_DIST - 1)
      x    == BAdd(BMulSmall(M1, 95), BMulSmall(BPow10(n + 1), 5 * symbol))
      t    == ToU16(BToInt(BDivPow10(x, n + 3)))
  IN  IF cnt = 0
      THEN [ mean |-> M1, variance |-> V1, scale |-> n + 1,
             outlier_counter |-> 0, active_dist |-> dist,
             active_symbol_shift |-> ToI16(511 - t) ]
      ELSE [ m EXCEPT !.outlier_counter = cnt ]


\* ------------------------------------------------------------------------
\* Byte streams (std::istream / std::ostream)
\* ------------------------------------------------------------------------
\* An input stream: its bytes, the read position and the fail state.
IStream(bytes) == [ data |-> bytes, pos |-> 0, fail |-> FALSE ]

\* istream::read(buf, n): the bytes extracted and the stream afterwards.  A
\* stream in the fail state extracts nothing; fewer than n bytes left are
\* extracted and put the stream in the fail state.
StreamRead(st, n) ==
  IF st.fail THEN [ got |-> <<>>, ok |-> FALSE, st |-> st ]
  ELSE IF st.pos + n <= Len(st.data)
       THEN [ got |-> SubSeq(st.data, st.pos + 1, st.pos + n), ok |-> TRUE,
              st  |-> [ st EXCEPT !.pos = st.pos + n ] ]
       ELSE [ got |-> SubSeq(st.data, st.pos + 1, Len(st.data)), ok |-> FALSE,
              st  |-> [ st EXCEPT !.pos = Len(st.data), !.fail = TRUE ] ]

\* ------------------------------------------------------------------------
\* WAV header (wav.hpp, neuralink.hpp)
\* ------------------------------------------------------------------------
\* read_wav_header: a vector of 44 zero bytes overwritten by the bytes read
read_wav_header(st) ==
  LET r == StreamRead(st, HEADER_SIZE)
  IN  [ header |-> r.got \o [ i \in 1 .. (HEADER_SIZE - Len(r.got)) |-> 0 ],
        st |-> r.st ]

\* a little-endian uint16_t at byte offset off
U16At(bytes, off) == bytes[off + 1] + 256 * bytes[off + 2]

\* neuralink_check_wav_header: TRUE when no exception is thrown
neuralink_check_wav_header(header) ==
  /\ Len(header) = HEADER_SIZE
  /\ U16At(header, 22) = 1
  /\ U16At(header, 34) = 16

\* ------------------------------------------------------------------------
\* Bit streams (bitstream.hpp)
\* ------------------------------------------------------------------------
\* OBitStream after construction over an output stream holding `bytes`
OBitStream(bytes) ==
  [ outputBuffer |-> 0, outputBufferPos |-> 0, outputStream |-> bytes ]

\* flush without the alignment of the bits to the left: C14_BitPacking does
\* not hold of it
OFlush_NoAlign(o) ==
  IF o.outputBufferPos > 0
  THEN [ outputBuffer |-> 0, outputBufferPos |-> 0,
         outputStream |-> Append(o.outputStream, o.outputBuffer % 256) ]
  ELSE o

\* OBitStream::flush
OFlush(o) ==
  IF o.outputBufferPos > 0
  THEN [ outputBuffer |-> 0, outputBufferPos |-> 0,
         outputStream |->
           Append(o.outputStream,
                  (o.outputBuffer * 2 ^ (8 - o.outputBufferPos)) % 256) ]
  ELSE o

\* OBitStream::put
put(o, bit) ==
  LET o1 == [ o EXCEPT !.outputBuffer = (o.outputBuffer * 2 + bit) % 256,
                       !.outputBufferPos = o.outputBufferPos + 1 ]
  IN  IF o1.outputBufferPos = 8 THEN OFlush(o1) ELSE o1

\* IBitStream after construction
IBitStreamInit == [ inputBuffer |-> 0, inputBufferPos |-> 8 ]

\* IBitStream::get over the byte stream st.  b is the content of the caller's
\* variable before the call: a failed get leaves it untouched.
get(i, st, b) ==
  IF i.inputBufferPos = 8
  THEN LET r == StreamRead(st, 1)
       IN  IF r.ok
           THEN [ ok |-> TRUE, bit |-> (r.got[1] \div 128) % 2, st |-> r.st,
                  ibs |-> [ inputBuffer |-> r.got[1], inputBufferPos |-> 1 ] ]
           ELSE [ ok |-> FALSE, bit |-> b, st |-> r.st,
                  ibs |-> [ inputBuffer |-> 0, inputBufferPos |-> 8 ] ]
  ELSE [ ok |-> TRUE,
         bit |-> (i.inputBuffer \div 2 ^ (7 - i.inputBufferPos)) % 2,
         st |-> st,
         ibs |-> [ i EXCEPT !.inputBufferPos = i.inputBufferPos + 1 ] ]

\* ------------------------------------------------------------------------
\* Arithmetic coder (arithmetic_coding.hpp)
\* ------------------------------------------------------------------------
\* floor(a * b / c) for 0 <= b < 2^16, without forming a * b
MulDiv(a, b, c) ==
  LET b1   == b \div 256
      b0   == b % 256
      t    == a * b1
      rest == (t % c) * 256 + a * b0
  IN  (t \div c) * 256 + (rest \div c)

\* forward_range: the pair <<low, high>> after narrowing.  low and high stay
\* below 2^17 in the encoder and in the decoder, so nothing wraps here.
forward_range(low, high, symbol_low, symbol_high) ==
  LET range == high - low + 1
  IN  << low + MulDiv(range, symbol_low, MAX_FREQUENCY),
         low + MulDiv(range, symbol_high, MAX_FREQUENCY) - 1 >>

\* The register value of the decoder is a uint32_t that can take any 32-bit
\* pattern once indeterminate bits were shifted in; it is kept as its two
\* 16-bit halves and all its arithmetic is modulo 2^32.
U32FromInt(n) == [ hi |-> (n \div 65536) % 65536, lo |-> n % 65536 ]

\* (v + n) mod 2^32 and (v - n) mod 2^32 for 0 <= n < 2^31
U32AddInt(v, n) ==
  LET l == v.lo + (n % 65536)
  IN  [ hi |-> (v.hi + (n \div 65536) + (l \div 65536)) % 65536,
        lo |-> l % 65536 ]

U32SubInt(v, n) ==
  LET l == v.lo - (n % 65536)
  IN  [ hi |-> (v.hi - (n \div 65536) + (l \div 65536)) % 65536,
        lo |-> l % 65536 ]

\* (v * k) mod 2^32 for 0 <= k < 2^15
U32MulSmall(v, k) ==
  LET l == v.lo * k
  IN  [ hi |-> (v.hi * k + (l \div 65536)) % 65536, lo |-> l % 65536 ]

\* floor(v / c) for 2^15 < c <= 2^17
U32DivInt(v, c) ==
  LET r1 == (v.hi % c) * 256 + (v.lo \div 256)
      r2 == (r1 % c) * 256 + (v.lo % 256)
  IN  (v.hi \div c) * 65536 + (r1 \div c) * 256 + (r2 \div c)

\* the bitwise or of two bytes
RECURSIVE Or8(_, _, _)
Or8(a, b, n) ==
  IF n = 0 THEN 0
  ELSE (IF a % 2 = 1 \/ b % 2 = 1 THEN 1 ELSE 0)
       + 2 * Or8(a \div 2, b \div 2, n - 1)

\* (v << 1) | b, where b is the byte of the bool b promoted to int
U32ShiftIn(v, b) ==
  LET l == (v.lo * 2) % 65536
  IN  [ hi |-> (v.hi * 2 + (v.lo \div 32768)) % 65536,
        lo |-> (l \div 256) * 256 + Or8(l % 256, b, 8) ]

\* comparisons of a 32-bit pattern with an integer 0 <= n < 2^31
U32LeInt(v, n) ==
  \/ v.hi < n \div 65536
  \/ v.hi = n \div 65536 /\ v.lo <= n % 65536

IntLeU32(n, v) ==
  \/ n \div 65536 < v.hi
  \/ n \div 65536 = v.hi /\ n % 65536 <= v.lo

\* backward_value: ((value - low + 1) * 0x7FFF - 1) / range in uint32_t
backward_value(value, low, high) ==
  LET range == high - low + 1
      x     == U32AddInt(U32SubInt(value, low), 1)
  IN  U32DivInt(U32SubInt(U32MulSmall(x, MAX_FREQUENCY), 1), range)

\* ArithmeticEncoder after construction
EncoderInit ==
  [ low |-> 0, high |-> MAX_CODE, pending_bits |-> 0,
    symbol_low |-> 0, symbol_high |-> 0,
    bits_written |-> 0, symbols_written |-> 0, model |-> ModelInit ]

NotBit(b) == 1 - b

RECURSIVE PutN(_, _, _)
PutN(o, bit, n) == IF n = 0 THEN o ELSE PutN(put(o, bit), bit, n - 1)

\* write_bits repeating b itself for the pending bits: C17_Renormalization
\* does not hold of it
write_bits_SameBit(e, b, o) ==
  [ enc |-> [ e EXCEPT !.bits_written = e.bits_written + 1 + e.pending_bits,
                       !.pending_bits = 0 ],
    obs |-> PutN(put(o, b), b, e.pending_bits) ]

\* ArithmeticEncoder::write_bits: b, then pending_bits times !b
write_bits(e, b, o) ==
  [ enc |-> [ e EXCEPT !.bits_written = e.bits_written + 1 + e.pending_bits,
                       !.pending_bits = 0 ],
    obs |-> PutN(put(o, b), NotBit(b), e.pending_bits) ]

\* EncShift with high masked to 18 bits instead of 17: C3_EncoderRegisters
\* does not hold of it
EncShift_WideMask(e) ==
  [ e EXCEPT !.low  = (e.low * 2) % (MAX_CODE + 1),
             !.high = (e.high * 2 + 1) % (2 * (MAX_CODE + 1)) ]

\* the shift at the end of a loop iteration of encode
EncShift(e) ==
  [ e EXCEPT !.low  = (e.low * 2) % (MAX_CODE + 1),
             !.high = (e.high * 2 + 1) % (MAX_CODE + 1) ]

\* the while (true) loop of ArithmeticEncoder::encode
RECURSIVE EncodeLoop(_, _)
EncodeLoop(e, o) ==
  IF e.high < Int50
  THEN LET w == write_bits(e, 0, o) IN EncodeLoop(EncShift(w.enc), w.obs)
  ELSE IF e.low >= Int50
  THEN LET w == write_bits(e, 1, o) IN EncodeLoop(EncShift(w.enc), w.obs)
  ELSE IF e.low >= Int25 /\ e.high < Int75
  THEN EncodeLoop(EncShift([ e EXCEPT !.pending_bits = e.pending_bits + 1,
                                      !.low = e.low - Int25,
                                      !.high = e.high - Int25 ]), o)
  ELSE [ enc |-> e, obs |-> o ]

\* ArithmeticEncoder::encode
encode(e, symbol, o) ==
  LET lh == symbol_low_high(e.model, symbol)
      r  == forward_range(e.low, e.high, lh[1], lh[2])
  IN  EncodeLoop([ e EXCEPT !.symbols_written = e.symbols_written + 1,
                            !.symbol_low = lh[1], !.symbol_high = lh[2],
                            !.low = r[1], !.high = r[2] ], o)

\* flush without the increment of pending_bits: C13_FlushBits does not hold
\* of it
flush_NoIncrement(e, o) ==
  IF e.low < Int25 THEN write_bits(e, 0, o) ELSE write_bits(e, 1, o)

\* ArithmeticEncoder::flush
flush(e, o) ==
  LET e1 == [ e EXCEPT !.pending_bits = e.pending_bits + 1 ]
  IN  IF e1.low < Int25 THEN write_bits(e1, 0, o) ELSE write_bits(e1, 1, o)

\* ArithmeticDecoder after construction
DecoderInit ==
  [ low |-> 0, high |-> MAX_CODE, value |-> U32FromInt(0),
    pending_bits |-> 0, symbol_low |-> 0, symbol_high |-> 0,
    bits_read |-> 0, symbols_read |-> 0, model |-> ModelInit ]

\* The state threaded through the bit reads of the decoder: the decoder, the
\* bit stream, the byte stream, the local variable b and the number of get
\* calls that returned false.
\* ArithmeticDecoder::init: 17 times get(b); value = (value << 1) | b
RECURSIVE InitLoop(_, _)
InitLoop(c, i) ==
  IF i = CODE_BITS THEN c
  ELSE LET g == get(c.ibs, c.st, c.b)
       IN  InitLoop([ dec  |-> [ c.dec EXCEPT
                                   !.value = U32ShiftIn(c.dec.value, g.bit) ],
                      ibs  |-> g.ibs, st |-> g.st, b |-> g.bit,
                      miss |-> c.miss + (IF g.ok THEN 0 ELSE 1) ], i + 1)

\* u is the indeterminate content of the uninitialized local b
init(d, i, st, u) ==
  InitLoop([ dec |-> [ d EXCEPT !.value = U32FromInt(0) ], ibs |-> i, st |-> st,
             b |-> u, miss |-> 0 ], 0)

\* DecShift without the "| 1" on high: C24_LoopBound does not hold of it
DecShift_HighEven(c, sub) ==
  LET g == get(c.ibs, c.st, c.b)
      d == c.dec
  IN  [ dec  |-> [ d EXCEPT !.low = (d.low - sub) * 2,
                            !.high = (d.high - sub) * 2,
                            !.value = U32ShiftIn(U32SubInt(d.value, sub),
                                                 g.bit) ],
        ibs  |-> g.ibs, st |-> g.st, b |-> g.bit,
        miss |-> c.miss + (IF g.ok THEN 0 ELSE 1) ]

\* the end of a loop iteration of decode, after sub was subtracted from
\* value, low and high: shift and read one bit
DecShift(c, sub) ==
  LET g == get(c.ibs, c.st, c.b)
      d == c.dec
  IN  [ dec  |-> [ d EXCEPT !.low = (d.low - sub) * 2,
                            !.high = (d.high - sub) * 2 + 1,
                            !.value = U32ShiftIn(U32SubInt(d.value, sub),
                                                 g.bit) ],
        ibs  |-> g.ibs, st |-> g.st, b |-> g.bit,
        miss |-> c.miss + (IF g.ok THEN 0 ELSE 1) ]

\* the while (true) loop of ArithmeticDecoder::decode
RECURSIVE DecodeLoop(_)
DecodeLoop(c) ==
  LET d == c.dec
  IN  IF d.high < Int50
      THEN DecodeLoop(DecShift(c, 0))
      ELSE IF d.low >= Int50
      THEN DecodeLoop(DecShift(c, Int50))
      ELSE IF d.low >= Int25 /\ d.high < Int75
      THEN DecodeLoop(DecShift(c, Int25))
      ELSE c

\* ArithmeticDecoder::decode; the field symbol is the value returned
decode(d, i, st, u) ==
  LET scaled_value == backward_value(d.value, d.low, d.high)
      symbol == frequency_symbol(d.model, scaled_value)
      lh == symbol_low_high(d.model, symbol)
      r  == forward_range(d.low, d.high, lh[1], lh[2])
      c  == DecodeLoop([ dec |-> [ d EXCEPT !.symbol_low = lh[1],
                                            !.symbol_high = lh[2],
                                            !.low = r[1], !.high = r[2] ],
                         ibs |-> i, st |-> st, b |-> u, miss |-> 0 ])
  IN  [ symbol |-> symbol, dec |-> c.dec, ibs |-> c.ibs, st |-> c.st,
        miss |-> c.miss ]

\* ------------------------------------------------------------------------
\* Sample streams (neuralink.hpp)
\* ------------------------------------------------------------------------
\* the int16_t stored little-endian in two bytes
I16OfBytes(bs) == ToI16(bs[1] + 256 * bs[2])

\* the two bytes of an int16_t, little-endian
BytesOfI16(x) == << (x % 65536) % 256, (x % 65536) \div 256 >>

\* neuralink_read_symbol_from_stream
neuralink_read_symbol_from_stream(st) ==
  LET r == StreamRead(st, 2)
  IN  [ ok |-> r.ok, st |-> r.st,
        symbol |-> IF r.ok THEN neuralink_16bit_to_10bit(I16OfBytes(r.got))
                   ELSE 0 ]

\* neuralink_write_symbol_to_stream: the bytes appended to the output
neuralink_write_symbol_to_stream(out, symbol) ==
  out \o BytesOfI16(neuralink_10bit_to_16bit(symbol))


\* ------------------------------------------------------------------------
\* State
\* ------------------------------------------------------------------------
VARIABLES
  pc,        \* position in encodeStream / decodeStream
  input,     \* inputStream of encodeStream
  enc,       \* the ArithmeticEncoder<Model> of encodeStream
  obs,       \* the OBitStream of encodeStream with its output stream
  din,       \* inputStream of decodeStream
  ibs,       \* the IBitStream of decodeStream
  dec,       \* the ArithmeticDecoder<Model> of decodeStream
  decOut,    \* outputStream of decodeStream
  encSyms,   \* history: the symbols passed to encoder.encode
  encTrace,  \* history: the encoder after each symbol of the stream
  decSyms,   \* history: the symbols returned by decoder.decode
  pastEnd,   \* history: the number of get calls that returned false
  quant,     \* the argument and results of the quantizer functions
  putBits,   \* history: the bits passed to put by the bit-packing runs
  mdl,       \* a Model on its own
  mdlSyms,   \* history: the symbols passed to mdl's update_state
  lookup,    \* the arguments and results of mdl's table lookups
  first      \* history: what an earlier run of decodeStream returned

vars == << pc, input, enc, obs, din, ibs, dec, decOut,
           encSyms, encTrace, decSyms, pastEnd, quant, putBits,
           mdl, mdlSyms, lookup, first >>

\* the variables of the runs of a single component and of the second run of
\* decodeStream: the steps of the two programs leave them as they are
standalone == << putBits, mdl, mdlSyms, lookup, first >>

\* ------------------------------------------------------------------------
\* Inputs
\* ------------------------------------------------------------------------
\* A 44-byte header of a 16-bit mono WAV: numChannels (bytes 22..23) = 1,
\* bitsPerSample (bytes 34..35) = 16, the other bytes arbitrary.
ValidHeader ==
  [ i \in 1 .. HEADER_SIZE |->
      IF i = 23 THEN 1 ELSE IF i = 35 THEN 16
      ELSE IF i \in {24, 36} THEN 0 ELSE (37 * i) % 256 ]

StereoHeader == [ ValidHeader EXCEPT ![23] = 2 ]
EightBitHeader == [ ValidHeader EXCEPT ![35] = 8 ]

\* The sample values of the inputs: 0 (symbol 512, not a value of the inverse
\* map), and the values the inverse map gives to the symbols 512, 511, 510,
\* 540, 1023 and 0.
SampleSet == { 0, 31, -32, -96, 1825, 32767, -32768 }

SampleSeqs == UNION { [ 1 .. n -> SampleSet ] : n \in 0 .. MaxSamples }

RECURSIVE BytesOfSamples(_)
BytesOfSamples(xs) ==
  IF xs = <<>> THEN <<>>
  ELSE BytesOfI16(Head(xs)) \o BytesOfSamples(Tail(xs))

\* the inputs of encodeStream: valid WAVs, rejected headers, short headers
Inputs ==
  { ValidHeader \o BytesOfSamples(xs) : xs \in SampleSeqs }
  \cup { StereoHeader \o BytesOfSamples(<<31>>),
         EightBitHeader \o BytesOfSamples(<<31>>),
         SubSeq(ValidHeader, 1, 20),
         SubSeq(ValidHeader, 1, 40) }

\* the bytes of the payloads handed directly to decodeStream
PayloadBytes == { 0, 85, 144, 255 }

Payloads == UNION { [ 1 .. n -> PayloadBytes ] : n \in 0 .. MaxPayload }

DecoderFiles ==
  { ValidHeader \o p : p \in Payloads }
  \cup { StereoHeader \o <<255, 255>>, SubSeq(ValidHeader, 1, 20) }

\* the decoder is followed through at most this many symbols
DecodeCap == MaxSamples + MaxExtraDecode

\* The content of the byte of an uninitialized bool: the two values of a bool
\* and two of the 254 other bytes.
UninitBytes == { 0, 1, 70, 255 }

\* The symbols passed to a Model on its own: 512 and 511 (samples +32 and
\* -32), and 1023, an outlier of the initial state.
ModelSymbols == { 511, 512, 1023 }

\* The samples of the WAVs whose encoded file is decoded twice: symbols
\* 512, 510 and 1023.
TailSamples == { 0, -96, 32767 }

TailInputs ==
  { ValidHeader \o BytesOfSamples(xs) :
      xs \in UNION { [ 1 .. n -> TailSamples ] : n \in 0 .. MaxSamples } }

\* The files of the runs of either program: for encodeStream the WAVs of
\* TailInputs and the rejected and short headers of Inputs, for decodeStream
\* a valid header with a payload of at most one byte and rejected headers.
ProgramInputs ==
  TailInputs
  \cup { StereoHeader \o BytesOfSamples(<<31>>),
         EightBitHeader \o BytesOfSamples(<<31>>),
         SubSeq(ValidHeader, 1, 20),
         SubSeq(ValidHeader, 1, 40) }

ProgramFiles ==
  { ValidHeader } \cup { ValidHeader \o << b >> : b \in PayloadBytes }
  \cup { StereoHeader \o <<255, 255>>, EightBitHeader \o <<255, 255>>,
         SubSeq(ValidHeader, 1, 20) }

\* The bytes that follow the last byte of the encoder in the file of the
\* second run of decodeStream.
TailExtras == { <<>>, <<255>>, <<85, 144>> }

\* The values of active_symbol_shift of the table lookups: the ends of its
\* range 511 - 1024 .. 511 - 0, the values around 0 and one in between.
LookupShifts == { -513, -512, -1, 0, 1, 300, 511 }

\* ------------------------------------------------------------------------
\* Initial states
\* ------------------------------------------------------------------------
\* no run of decodeStream has returned yet
NoFirst == [ done |-> FALSE, syms |-> <<>>, out |-> <<>> ]

Idle ==
  /\ enc = EncoderInit
  /\ obs = OBitStream(<<>>)
  /\ ibs = IBitStreamInit
  /\ dec = DecoderInit
  /\ decOut = <<>>
  /\ encSyms = <<>>
  /\ encTrace = <<>>
  /\ decSyms = <<>>
  /\ pastEnd = 0
  /\ putBits = <<>>
  /\ mdl = ModelInit
  /\ mdlSyms = <<>>
  /\ first = NoFirst

NoLookup == [ symbol |-> 0, low |-> 0, high |-> 0, f |-> 0, found |-> 0 ]

NoQuant == [ in |-> 0, mid |-> 0, out |-> 0 ]

\* encode a WAV, then decode the encoder's output
Init ==
  /\ pc = "enc_start"
  /\ input \in { IStream(f) : f \in Inputs }
  /\ din = IStream(<<>>)
  /\ quant = NoQuant
  /\ lookup = NoLookup
  /\ Idle

\* encode a WAV of TailInputs, then decode the encoder's output twice
InitTail ==
  /\ pc = "enc_start"
  /\ input \in { IStream(f) : f \in TailInputs }
  /\ din = IStream(<<>>)
  /\ quant = NoQuant
  /\ lookup = NoLookup
  /\ Idle

\* decode an arbitrary file
InitDecode ==
  /\ pc = "dec_start"
  /\ input = IStream(<<>>)
  /\ din \in { IStream(f) : f \in DecoderFiles }
  /\ quant = NoQuant
  /\ lookup = NoLookup
  /\ Idle

\* an OBitStream over an empty output stream
InitBits ==
  /\ pc = "bits"
  /\ input = IStream(<<>>)
  /\ din = IStream(<<>>)
  /\ quant = NoQuant
  /\ lookup = NoLookup
  /\ Idle

\* a Model after construction
InitModel ==
  /\ pc = "model"
  /\ input = IStream(<<>>)
  /\ din = IStream(<<>>)
  /\ quant = NoQuant
  /\ lookup = NoLookup
  /\ Idle

\* a Model with any table selected and a shift of LookupShifts, asked for
\* any symbol
InitLookup ==
  /\ pc = "lookup"
  /\ \E d \in 0 .. NUM_DIST - 1, shift \in LookupShifts :
       mdl = [ ModelInit EXCEPT !.active_dist = d,
                                !.active_symbol_shift = shift ]
  /\ lookup \in { [ NoLookup EXCEPT !.symbol = symbol ] :
                    symbol \in 0 .. NUM_SYMBOLS - 1 }
  /\ input = IStream(<<>>)
  /\ din = IStream(<<>>)
  /\ quant = NoQuant
  /\ enc = EncoderInit
  /\ obs = OBitStream(<<>>)
  /\ ibs = IBitStreamInit
  /\ dec = DecoderInit
  /\ decOut = <<>>
  /\ encSyms = <<>>
  /\ encTrace = <<>>
  /\ decSyms = <<>>
  /\ pastEnd = 0
  /\ putBits = <<>>
  /\ mdlSyms = <<>>
  /\ first = NoFirst

\* apply the quantizer functions to every argument
InitQuant ==
  /\ \/ pc = "q16" /\ quant \in { [ in |-> x, mid |-> 0, out |-> 0 ] :
                                   x \in -32768 .. 32767 }
     \/ pc = "q10" /\ quant \in { [ in |-> u, mid |-> 0, out |-> 0 ] :
                                   u \in 0 .. 1023 }
  /\ lookup = NoLookup
  /\ input = IStream(<<>>)
  /\ din = IStream(<<>>)
  /\ Idle

\* ------------------------------------------------------------------------
\* encodeStream (encode.cpp)
\* ------------------------------------------------------------------------
\* the registers and the model of the encoder, as recorded in encTrace
Snapshot(e) ==
  [ low |-> e.low, high |-> e.high, pending_bits |-> e.pending_bits,
    model |-> e.model ]

\* read_wav_header, neuralink_check_wav_header (passes), write_wav_header
EncHeader ==
  /\ pc = "enc_start"
  /\ LET h == read_wav_header(input)
     IN  /\ neuralink_check_wav_header(h.header)
         /\ input' = h.st
         /\ obs' = [ obs EXCEPT !.outputStream = h.header ]
  /\ pc' = "enc_loop"
  /\ UNCHANGED standalone
  /\ UNCHANGED << enc, din, ibs, dec, decOut, encSyms, encTrace, decSyms,
                  pastEnd, quant >>

\* EncReject with write_wav_header called before the check:
\* C12_BadHeaderRejected does not hold of it
EncReject_WritesHeader ==
  /\ pc = "enc_start"
  /\ LET h == read_wav_header(input)
     IN  /\ ~neuralink_check_wav_header(h.header)
         /\ input' = h.st
         /\ obs' = [ obs EXCEPT !.outputStream = h.header ]
  /\ pc' = "enc_error"
  /\ UNCHANGED standalone
  /\ UNCHANGED << enc, din, ibs, dec, decOut, encSyms, encTrace,
                  decSyms, pastEnd, quant >>

\* read_wav_header, neuralink_check_wav_header throws
EncReject ==
  /\ pc = "enc_start"
  /\ LET h == read_wav_header(input)
     IN  /\ ~neuralink_check_wav_header(h.header)
         /\ input' = h.st
  /\ pc' = "enc_error"
  /\ UNCHANGED standalone
  /\ UNCHANGED << enc, obs, din, ibs, dec, decOut, encSyms, encTrace,
                  decSyms, pastEnd, quant >>

\* EncSymbol with update_state called before encode: C21_UpdateAfterSymbol
\* does not hold of it
EncSymbol_UpdateFirst ==
  /\ pc = "enc_loop"
  /\ LET r == neuralink_read_symbol_from_stream(input)
         w == encode([ enc EXCEPT !.model = update_state(enc.model, r.symbol) ],
                     r.symbol, obs)
         e == w.enc
     IN  /\ r.ok
         /\ input' = r.st
         /\ enc' = e
         /\ obs' = w.obs
         /\ encSyms' = Append(encSyms, r.symbol)
         /\ encTrace' = Append(encTrace, Snapshot(e))
  /\ UNCHANGED standalone
  /\ UNCHANGED << pc, din, ibs, dec, decOut, decSyms, pastEnd, quant >>

\* one iteration of the main loop: read a symbol, encode, update_state
EncSymbol ==
  /\ pc = "enc_loop"
  /\ LET r == neuralink_read_symbol_from_stream(input)
         w == encode(enc, r.symbol, obs)
         e == [ w.enc EXCEPT !.model = update_state(w.enc.model, r.symbol) ]
     IN  /\ r.ok
         /\ input' = r.st
         /\ enc' = e
         /\ obs' = w.obs
         /\ encSyms' = Append(encSyms, r.symbol)
         /\ encTrace' = Append(encTrace, Snapshot(e))
  /\ UNCHANGED standalone
  /\ UNCHANGED << pc, din, ibs, dec, decOut, decSyms, pastEnd, quant >>

\* the read fails: leave the loop and encode the stop symbol
EncStop ==
  /\ pc = "enc_loop"
  /\ LET r == neuralink_read_symbol_from_stream(input)
         w == encode(enc, STOP_SYMBOL, obs)
     IN  /\ ~r.ok
         /\ input' = r.st
         /\ enc' = w.enc
         /\ obs' = w.obs
         /\ encSyms' = Append(encSyms, STOP_SYMBOL)
         /\ encTrace' = Append(encTrace, Snapshot(w.enc))
  /\ pc' = "enc_flush"
  /\ UNCHANGED standalone
  /\ UNCHANGED << din, ibs, dec, decOut, decSyms, pastEnd, quant >>

\* encoder.flush(outputBitStream)
EncFlush ==
  /\ pc = "enc_flush"
  /\ LET w == flush(enc, obs)
     IN  /\ enc' = w.enc
         /\ obs' = w.obs
  /\ pc' = "enc_bitflush"
  /\ UNCHANGED standalone
  /\ UNCHANGED << input, din, ibs, dec, decOut, encSyms, encTrace, decSyms,
                  pastEnd, quant >>

\* outputBitStream.flush()
EncBitFlush ==
  /\ pc = "enc_bitflush"
  /\ obs' = OFlush(obs)
  /\ pc' = "enc_return"
  /\ UNCHANGED standalone
  /\ UNCHANGED << input, enc, din, ibs, dec, decOut, encSyms, encTrace,
                  decSyms, pastEnd, quant >>

\* encodeStream returns: ~OBitStream flushes again; the output becomes the
\* input of decodeStream
EncReturn ==
  /\ pc = "enc_return"
  /\ obs' = OFlush(obs)
  /\ din' = IStream(obs'.outputStream)
  /\ pc' = "dec_start"
  /\ UNCHANGED standalone
  /\ UNCHANGED << input, enc, ibs, dec, decOut, encSyms, encTrace, decSyms,
                  pastEnd, quant >>

\* ------------------------------------------------------------------------
\* decodeStream (decode.cpp)
\* ------------------------------------------------------------------------
DecHeader ==
  /\ pc = "dec_start"
  /\ LET h == read_wav_header(din)
     IN  /\ neuralink_check_wav_header(h.header)
         /\ din' = h.st
         /\ decOut' = h.header
  /\ pc' = "dec_init"
  /\ UNCHANGED standalone
  /\ UNCHANGED << input, enc, obs, ibs, dec, encSyms, encTrace, decSyms,
                  pastEnd, quant >>

DecReject ==
  /\ pc = "dec_start"
  /\ LET h == read_wav_header(din)
     IN  /\ ~neuralink_check_wav_header(h.header)
         /\ din' = h.st
  /\ pc' = "dec_error"
  /\ UNCHANGED standalone
  /\ UNCHANGED << input, enc, obs, ibs, dec, decOut, encSyms, encTrace,
                  decSyms, pastEnd, quant >>

\* decoder.init(inputBitStream)
DecInit ==
  /\ pc = "dec_init"
  /\ \E u \in UninitBytes :
       LET c == init(dec, ibs, din, u)
       IN  /\ dec' = c.dec
           /\ ibs' = c.ibs
           /\ din' = c.st
           /\ pastEnd' = pastEnd + c.miss
  /\ pc' = "dec_loop"
  /\ UNCHANGED standalone
  /\ UNCHANGED << input, enc, obs, decOut, encSyms, encTrace, decSyms,
                  quant >>

\* DecSymbol without the call of update_state: C5_Lockstep does not hold of
\* it
DecSymbol_NoUpdate ==
  /\ pc = "dec_loop"
  /\ Len(decSyms) < DecodeCap
  /\ \E u \in UninitBytes :
       LET r == decode(dec, ibs, din, u)
       IN  /\ r.symbol # STOP_SYMBOL
           /\ dec' = r.dec
           /\ ibs' = r.ibs
           /\ din' = r.st
           /\ pastEnd' = pastEnd + r.miss
           /\ decSyms' = Append(decSyms, r.symbol)
           /\ decOut' = neuralink_write_symbol_to_stream(decOut, r.symbol)
  /\ UNCHANGED standalone
  /\ UNCHANGED << pc, input, enc, obs, encSyms, encTrace, quant >>

\* one iteration of the main loop with a payload symbol: decode,
\* update_state, write the sample
DecSymbol ==
  /\ pc = "dec_loop"
  /\ Len(decSyms) < DecodeCap
  /\ \E u \in UninitBytes :
       LET r == decode(dec, ibs, din, u)
       IN  /\ r.symbol # STOP_SYMBOL
           /\ dec' = [ r.dec EXCEPT
                         !.model = update_state(r.dec.model, r.symbol) ]
           /\ ibs' = r.ibs
           /\ din' = r.st
           /\ pastEnd' = pastEnd + r.miss
           /\ decSyms' = Append(decSyms, r.symbol)
           /\ decOut' = neuralink_write_symbol_to_stream(decOut, r.symbol)
  /\ UNCHANGED standalone
  /\ UNCHANGED << pc, input, enc, obs, encSyms, encTrace, quant >>

\* DecStop writing a sample for the stop symbol before it breaks:
\* C6_StopSymbol does not hold of it
DecStop_WritesSample ==
  /\ pc = "dec_loop"
  /\ Len(decSyms) < DecodeCap
  /\ \E u \in UninitBytes :
       LET r == decode(dec, ibs, din, u)
       IN  /\ r.symbol = STOP_SYMBOL
           /\ dec' = [ r.dec EXCEPT
                         !.model = update_state(r.dec.model, r.symbol) ]
           /\ ibs' = r.ibs
           /\ din' = r.st
           /\ pastEnd' = pastEnd + r.miss
           /\ decSyms' = Append(decSyms, r.symbol)
           /\ decOut' = neuralink_write_symbol_to_stream(decOut, 0)
  /\ pc' = "done"
  /\ UNCHANGED standalone
  /\ UNCHANGED << input, enc, obs, encSyms, encTrace, quant >>

\* the iteration that decodes the stop symbol: decode, update_state, break
DecStop ==
  /\ pc = "dec_loop"
  /\ Len(decSyms) < DecodeCap
  /\ \E u \in UninitBytes :
       LET r == decode(dec, ibs, din, u)
       IN  /\ r.symbol = STOP_SYMBOL
           /\ dec' = [ r.dec EXCEPT
                         !.model = update_state(r.dec.model, r.symbol) ]
           /\ ibs' = r.ibs
           /\ din' = r.st
           /\ pastEnd' = pastEnd + r.miss
           /\ decSyms' = Append(decSyms, r.symbol)
  /\ pc' = "done"
  /\ UNCHANGED standalone
  /\ UNCHANGED << input, enc, obs, decOut, encSyms, encTrace, quant >>

\* ------------------------------------------------------------------------
\* decodeStream run again on the encoder's file with other bits after the
\* bits of ArithmeticEncoder::flush
\* ------------------------------------------------------------------------
\* the bits of a byte, most significant first, packed as OBitStream packs them
RECURSIVE BytesOfBits(_)
BytesOfBits(bits) ==
  IF bits = <<>> THEN <<>>
  ELSE << bits[1] * 128 + bits[2] * 64 + bits[3] * 32 + bits[4] * 16
          + bits[5] * 8 + bits[6] * 4 + bits[7] * 2 + bits[8] >>
       \o BytesOfBits(SubSeq(bits, 9, Len(bits)))

\* The file of the encoder with the bits that OBitStream::flush padded the
\* last byte with set to fill, followed by the bytes extra: file holds the
\* header and the nbits bits the encoder wrote, zero-padded to a whole byte.
AlterTail(file, nbits, fill, extra) ==
  LET payload == SubSeq(file, HEADER_SIZE + 1, Len(file))
  IN  SubSeq(file, 1, HEADER_SIZE)
      \o BytesOfBits([ k \in 1 .. 8 * Len(payload) |->
                         IF k <= nbits
                         THEN (payload[(k - 1) \div 8 + 1]
                                 \div 2 ^ (7 - ((k - 1) % 8))) % 2
                         ELSE fill ])
      \o extra

\* decodeStream has returned; it is called again, with a new decoder and a
\* new IBitStream, on a file that agrees with the encoder's up to the last
\* bit written by ArithmeticEncoder::flush
DecAgain ==
  /\ pc = "done"
  /\ ~first.done
  /\ first' = [ done |-> TRUE, syms |-> decSyms, out |-> decOut ]
  /\ \E fill \in { 0, 1 }, extra \in TailExtras :
       din' = IStream(AlterTail(obs.outputStream, enc.bits_written, fill,
                                extra))
  /\ ibs' = IBitStreamInit
  /\ dec' = DecoderInit
  /\ decOut' = <<>>
  /\ decSyms' = <<>>
  /\ pastEnd' = 0
  /\ pc' = "dec_start"
  /\ UNCHANGED << input, enc, obs, encSyms, encTrace, quant, putBits, mdl,
                  mdlSyms, lookup >>

\* ------------------------------------------------------------------------
\* The quantizer functions applied to one argument
\* ------------------------------------------------------------------------
Quantize ==
  /\ pc = "q16"
  /\ quant' = [ quant EXCEPT !.out = neuralink_16bit_to_10bit(quant.in) ]
  /\ pc' = "q16_done"
  /\ UNCHANGED standalone
  /\ UNCHANGED << input, enc, obs, din, ibs, dec, decOut, encSyms, encTrace,
                  decSyms, pastEnd >>

Dequantize ==
  /\ pc = "q10"
  /\ quant' = [ quant EXCEPT !.mid = neuralink_10bit_to_16bit(quant.in) ]
  /\ pc' = "q10_mid"
  /\ UNCHANGED standalone
  /\ UNCHANGED << input, enc, obs, din, ibs, dec, decOut, encSyms, encTrace,
                  decSyms, pastEnd >>

Requantize ==
  /\ pc = "q10_mid"
  /\ quant' = [ quant EXCEPT !.out = neuralink_16bit_to_10bit(quant.mid) ]
  /\ pc' = "q10_done"
  /\ UNCHANGED standalone
  /\ UNCHANGED << input, enc, obs, din, ibs, dec, decOut, encSyms, encTrace,
                  decSyms, pastEnd >>

\* ------------------------------------------------------------------------
\* An OBitStream on its own: puts, then flushes
\* ------------------------------------------------------------------------
\* outputBitStream.put(b) for either value of b
BitPut ==
  /\ pc = "bits"
  /\ Len(putBits) < MaxBits
  /\ \E b \in {0, 1} :
       /\ obs' = put(obs, b)
       /\ putBits' = Append(putBits, b)
  /\ UNCHANGED << pc, input, enc, din, ibs, dec, decOut, encSyms, encTrace,
                  decSyms, pastEnd, quant, mdl, mdlSyms, lookup, first >>

\* outputBitStream.flush(), called explicitly or by ~OBitStream
BitFlush ==
  /\ pc \in {"bits", "bits_flushed"}
  /\ obs' = OFlush(obs)
  /\ pc' = "bits_flushed"
  /\ UNCHANGED << input, enc, din, ibs, dec, decOut, encSyms, encTrace,
                  decSyms, pastEnd, quant, putBits, mdl, mdlSyms, lookup,
                  first >>

\* ------------------------------------------------------------------------
\* A Model on its own: update_state with any of the symbols of ModelSymbols
\* ------------------------------------------------------------------------
ModelUpdate ==
  /\ pc = "model"
  /\ Len(mdlSyms) < MaxUpdates
  /\ \E symbol \in ModelSymbols :
       /\ mdl' = update_state(mdl, symbol)
       /\ mdlSyms' = Append(mdlSyms, symbol)
  /\ UNCHANGED << pc, input, enc, obs, din, ibs, dec, decOut, encSyms,
                  encTrace, decSyms, pastEnd, quant, putBits, lookup,
                  first >>

\* ------------------------------------------------------------------------
\* The table lookups of a Model on its own
\* ------------------------------------------------------------------------
\* model.symbol_low_high(symbol, low, high)
LookupInterval ==
  /\ pc = "lookup"
  /\ LET lh == symbol_low_high(mdl, lookup.symbol)
     IN  lookup' = [ lookup EXCEPT !.low = lh[1], !.high = lh[2] ]
  /\ pc' = "lookup_interval"
  /\ UNCHANGED << input, enc, obs, din, ibs, dec, decOut, encSyms, encTrace,
                  decSyms, pastEnd, quant, putBits, mdl, mdlSyms,
                  first >>

\* model.frequency_symbol(f) for the first and the last frequency of the
\* interval
LookupSymbol ==
  /\ pc = "lookup_interval"
  /\ \E f \in { lookup.low, lookup.high - 1 } :
       /\ f \in 0 .. MAX_FREQUENCY - 1
       /\ lookup' = [ lookup EXCEPT !.f = f,
                                    !.found = frequency_symbol(mdl, f) ]
  /\ pc' = "lookup_symbol"
  /\ UNCHANGED << input, enc, obs, din, ibs, dec, decOut, encSyms, encTrace,
                  decSyms, pastEnd, quant, putBits, mdl, mdlSyms,
                  first >>

\* ------------------------------------------------------------------------
\* Specifications
\* ------------------------------------------------------------------------
NextDecode == DecHeader \/ DecReject \/ DecInit \/ DecSymbol \/ DecStop

Next ==
  \/ EncHeader \/ EncReject \/ EncSymbol \/ EncStop
  \/ EncFlush \/ EncBitFlush \/ EncReturn
  \/ DecHeader \/ DecInit \/ DecSymbol \/ DecStop

NextQuant == Quantize \/ Dequantize \/ Requantize

\* encodeStream on a WAV, then decodeStream on its output
Spec == Init /\ [][Next]_vars

\* decodeStream on an arbitrary file
SpecDecode == InitDecode /\ [][NextDecode]_vars

\* either program on a file: encodeStream on a WAV and then decodeStream on
\* its output, or decodeStream on an arbitrary file
InitPrograms ==
  /\ \/ /\ pc = "enc_start"
        /\ input \in { IStream(f) : f \in ProgramInputs }
        /\ din = IStream(<<>>)
     \/ /\ pc = "dec_start"
        /\ input = IStream(<<>>)
        /\ din \in { IStream(f) : f \in ProgramFiles }
  /\ quant = NoQuant
  /\ lookup = NoLookup
  /\ Idle

NextPrograms == Next \/ DecReject

SpecPrograms == InitPrograms /\ [][NextPrograms]_vars

\* bit packing: any bits put into an OBitStream, then flushes
NextBits == BitPut \/ BitFlush

SpecBits == InitBits /\ [][NextBits]_vars

\* the probability model: any sequence of symbols of ModelSymbols
NextModel == ModelUpdate

SpecModel == InitModel /\ [][NextModel]_vars

\* the table lookups: any symbol, any table, the shifts of LookupShifts
NextLookup == LookupInterval \/ LookupSymbol

SpecLookup == InitLookup /\ [][NextLookup]_vars

\* encodeStream on a WAV, then decodeStream twice: on its output, and on its
\* output with other bits after those of the encoder's flush
NextTail ==
  \/ EncHeader \/ EncSymbol \/ EncStop \/ EncFlush \/ EncBitFlush \/ EncReturn
  \/ DecHeader \/ DecInit \/ DecSymbol \/ DecStop \/ DecAgain

SpecTail == InitTail /\ [][NextTail]_vars

\* the quantizer functions on every argument
SpecQuant == InitQuant /\ [][NextQuant]_vars


\* ------------------------------------------------------------------------
\* Notions used by the properties
\* ------------------------------------------------------------------------
IsPrefix(s, t) == Len(s) <= Len(t) /\ SubSeq(t, 1, Len(s)) = s

\* s holds the stop symbol at most once, and then as its last element
StopOnlyLast(s) == \A i \in 1 .. Len(s) : s[i] = STOP_SYMBOL => i = Len(s)

EndsWithStop(s) == s # <<>> /\ s[Len(s)] = STOP_SYMBOL

\* a valid 44-byte 16-bit mono header followed by whole 16-bit samples
ValidWav(bytes) ==
  /\ Len(bytes) >= HEADER_SIZE
  /\ neuralink_check_wav_header(SubSeq(bytes, 1, HEADER_SIZE))
  /\ (Len(bytes) - HEADER_SIZE) % 2 = 0

\* the number of whole samples that follow the first 44 bytes
NumSamples(bytes) ==
  IF Len(bytes) <= HEADER_SIZE THEN 0 ELSE (Len(bytes) - HEADER_SIZE) \div 2

\* the k-th sample of a WAV, k in 1 .. NumSamples
SampleAt(bytes, k) ==
  I16OfBytes(SubSeq(bytes, HEADER_SIZE + 2 * k - 1, HEADER_SIZE + 2 * k))

\* x is the sample value the decoder writes for the symbol of x
IsReconstructed(x) ==
  neuralink_10bit_to_16bit(neuralink_16bit_to_10bit(x)) = x

AllReconstructed(bytes) ==
  \A k \in 1 .. NumSamples(bytes) : IsReconstructed(SampleAt(bytes, k))

AfterStop ==
  pc \in {"enc_flush", "enc_bitflush", "enc_return",
          "dec_start", "dec_init", "dec_loop", "done"}

DecoderRunning == pc \in {"dec_loop", "done"}

\* ------------------------------------------------------------------------
\* C1  Round trip of a WAV.
\* ------------------------------------------------------------------------
\* C1: decodeStream applied to the output of encodeStream reproduces the
\* input byte for byte, the header and every sample.  Stated here for the
\* valid WAVs whose samples are values of neuralink_10bit_to_16bit, the only
\* samples the 10-bit symbols can give back (any other sample x is written as
\* neuralink_10bit_to_16bit(neuralink_16bit_to_10bit(x)): 0 becomes 31): the
\* decoder never writes anything that is not in the input, and when it stops
\* it has written the whole input.
C1_RoundTrip ==
  (ValidWav(input.data) /\ AllReconstructed(input.data)) =>
    /\ IsPrefix(decOut, input.data)
    /\ pc = "done" => decOut = input.data

\* ------------------------------------------------------------------------
\* C2  Round trip of the symbols through the coder.
\* ------------------------------------------------------------------------
\* C2: the decoder returns exactly the symbols the encoder encoded, in the
\* same order, ending with the stop symbol; it writes one sample per payload
\* symbol and none for the stop symbol.
C2_SymbolRoundTrip ==
  /\ IsPrefix(decSyms, encSyms)
  /\ pc = "dec_loop" => Len(decSyms) < Len(encSyms)
  /\ pc = "done" =>
       /\ decSyms = encSyms
       /\ EndsWithStop(decSyms)
       /\ Len(decOut) = HEADER_SIZE + 2 * (Len(encSyms) - 1)

\* ------------------------------------------------------------------------
\* C3  Registers of the encoder.
\* ------------------------------------------------------------------------
\* C3: after every encode call 0 <= low < high <= MAX_CODE and
\* high - low >= Int25.
C3_EncoderRegisters ==
  /\ 0 <= enc.low
  /\ enc.low < enc.high
  /\ enc.high <= MAX_CODE
  /\ enc.high - enc.low >= Int25

C3_Witness ==
  /\ pc = "enc_flush"
  /\ enc.symbols_written = MaxSamples + 1
  /\ enc.low > 0
  /\ enc.high < MAX_CODE
  /\ enc.bits_written > 0

\* ------------------------------------------------------------------------
\* C4  Registers of the decoder, on any input bits.
\* ------------------------------------------------------------------------
\* C4: after init and after every decode call, whatever the input bits,
\* 0 <= low < high <= MAX_CODE, high - low >= Int25 and low <= value <= high.
C4_DecoderRegisters ==
  DecoderRunning =>
    /\ 0 <= dec.low
    /\ dec.low < dec.high
    /\ dec.high <= MAX_CODE
    /\ dec.high - dec.low >= Int25
    /\ IntLeU32(dec.low, dec.value)
    /\ U32LeInt(dec.value, dec.high)

\* ------------------------------------------------------------------------
\* C5  Encoder and decoder in step.
\* ------------------------------------------------------------------------
\* the decoder has so far returned the symbols the encoder encoded
SameSymbolStream ==
  DecoderRunning /\ decSyms # <<>> /\ IsPrefix(decSyms, encSyms)

\* C5 as stated: on the same symbol stream, after the k-th symbol the encoder
\* and the decoder have equal low, high, pending_bits and model state.
C5_LockstepAll ==
  SameSymbolStream =>
    LET e == encTrace[Len(decSyms)]
    IN  /\ dec.low = e.low
        /\ dec.high = e.high
        /\ dec.pending_bits = e.pending_bits
        /\ dec.model = e.model

\* C5 as amended: on the same symbol stream, after the k-th symbol the
\* encoder and the decoder have equal low and high, and after every payload
\* symbol equal model state; pending_bits is counted by the encoder only (the
\* decoder's stays 0), and after the stop symbol only the decoder has updated
\* its model.
C5_Lockstep ==
  SameSymbolStream =>
    LET k == Len(decSyms)
        e == encTrace[k]
    IN  /\ dec.low = e.low
        /\ dec.high = e.high
        /\ dec.pending_bits = 0
        /\ decSyms[k] # STOP_SYMBOL => dec.model = e.model
        /\ decSyms[k] = STOP_SYMBOL =>
             dec.model = update_state(e.model, STOP_SYMBOL)

C5_Witness ==
  /\ pc = "dec_loop"
  /\ Len(decSyms) = MaxSamples
  /\ IsPrefix(decSyms, encSyms)
  /\ dec.model = encTrace[Len(decSyms)].model
  /\ dec.model.scale > 0
  /\ dec.model.active_dist > 0
  /\ dec.low = encTrace[Len(decSyms)].low
  /\ encTrace[Len(decSyms)].pending_bits > 0

\* ------------------------------------------------------------------------
\* C6  The stop symbol.
\* ------------------------------------------------------------------------
\* C6: encodeStream encodes the stop symbol exactly once, after all payload
\* symbols and before the flushes; decodeStream stops at the first decoded
\* stop symbol, writes no sample for it and decodes nothing after it.
C6_StopSymbol ==
  /\ StopOnlyLast(encSyms)
  /\ AfterStop <=> EndsWithStop(encSyms)
  /\ AfterStop => Len(encSyms) = NumSamples(input.data) + 1
  /\ StopOnlyLast(decSyms)
  /\ pc = "done" <=> EndsWithStop(decSyms)
  /\ DecoderRunning =>
       Len(decOut) = HEADER_SIZE
                     + 2 * Len(SelectSeq(decSyms, LAMBDA x : x # STOP_SYMBOL))

C6_Witness ==
  /\ pc = "done"
  /\ Len(decSyms) = MaxSamples + 1
  /\ EndsWithStop(encSyms)
  /\ encSyms[1] = STOP_SYMBOL - 1
  /\ Len(decOut) = HEADER_SIZE + 2 * MaxSamples

\* ------------------------------------------------------------------------
\* C7  Reads past the end of a well-formed payload.
\* ------------------------------------------------------------------------
\* C7: decoding the output of encodeStream, every get call of init and decode
\* up to the decode of the stop symbol finds a bit available.
C7_NoReadPastEnd == pastEnd = 0

\* ------------------------------------------------------------------------
\* C8  Truncated payload.
\* ------------------------------------------------------------------------
\* C8: once a get call has found the bit source exhausted, decodeStream
\* stops: it decodes no further symbol and writes no further sample.
C8_TruncatedFailsFast ==
  [][pastEnd > 0 => (decSyms' = decSyms /\ decOut' = decOut)]_vars

\* ------------------------------------------------------------------------
\* C9  Quantizer round trip on symbols.
\* ------------------------------------------------------------------------
\* C9: neuralink_16bit_to_10bit(neuralink_10bit_to_16bit(u)) = u for every
\* u in 0 .. 1023, the inverse map being the truncation of
\* (u - 512 + 0.5) * (64 + 1009/16384) - 0.5, which fits a signed 16-bit.
C9_QuantizerRoundTrip ==
  /\ pc \in {"q10_mid", "q10_done"} =>
       /\ quant.mid = Trunc32768(TempNumerator(quant.in))
       /\ quant.mid \in -32768 .. 32767
  /\ pc = "q10_done" => quant.out = quant.in

C9_Witness ==
  /\ pc = "q10_done"
  /\ quant.in = 0
  /\ quant.mid = -32768
  /\ quant.out = 0

\* ------------------------------------------------------------------------
\* C10  No payload symbol is the stop symbol.
\* ------------------------------------------------------------------------
\* C10: for every signed 16-bit sample x, neuralink_16bit_to_10bit(x) is
\* (x >> 6) + 512 and lies in 0 .. 1023, so it is never the stop symbol.
C10_PayloadSymbolRange ==
  pc = "q16_done" =>
    /\ quant.out = (quant.in - (quant.in % 64)) \div 64 + 512
    /\ quant.out \in 0 .. 1023
    /\ quant.out # STOP_SYMBOL

C10_Witness ==
  /\ pc = "q16_done"
  /\ quant.in = 32767
  /\ quant.out = 1023

\* ------------------------------------------------------------------------
\* C11  Header shorter than 44 bytes.
\* ------------------------------------------------------------------------
EncoderAt == pc \in {"enc_start", "enc_error", "enc_loop", "enc_flush",
                     "enc_bitflush", "enc_return"}

DecoderAt == pc \in {"dec_start", "dec_error", "dec_init", "dec_loop", "done"}

\* C11: when the input ends before 44 bytes were read, encodeStream and
\* decodeStream fail before any payload work and before anything is written:
\* they get no further than the error and their output stays empty.
C11_ShortHeaderRejected ==
  /\ (EncoderAt /\ Len(input.data) < HEADER_SIZE) =>
       /\ pc \in {"enc_start", "enc_error"}
       /\ obs.outputStream = <<>>
  /\ (DecoderAt /\ Len(din.data) < HEADER_SIZE) =>
       /\ pc \in {"dec_start", "dec_error"}
       /\ decOut = <<>>

\* ------------------------------------------------------------------------
\* C12  Header of another format.
\* ------------------------------------------------------------------------
\* the file has 44 header bytes and they are not those of a 16-bit mono WAV
BadHeader(bytes) ==
  /\ Len(bytes) >= HEADER_SIZE
  /\ ~neuralink_check_wav_header(SubSeq(bytes, 1, HEADER_SIZE))

GoodHeader(bytes) ==
  /\ Len(bytes) >= HEADER_SIZE
  /\ neuralink_check_wav_header(SubSeq(bytes, 1, HEADER_SIZE))

\* C12: with numChannels # 1 or bitsPerSample # 16 in the 44-byte header,
\* encodeStream and decodeStream fail having read no payload byte and written
\* no byte; with a valid header the first 44 output bytes are the 44 header
\* bytes.
C12_BadHeaderRejected ==
  /\ (EncoderAt /\ BadHeader(input.data)) =>
       /\ pc \in {"enc_start", "enc_error"}
       /\ input.pos <= HEADER_SIZE
       /\ obs.outputStream = <<>>
  /\ (DecoderAt /\ BadHeader(din.data)) =>
       /\ pc \in {"dec_start", "dec_error"}
       /\ din.pos <= HEADER_SIZE
       /\ decOut = <<>>
  /\ (EncoderAt /\ pc # "enc_start" /\ GoodHeader(input.data)) =>
       /\ Len(obs.outputStream) >= HEADER_SIZE
       /\ SubSeq(obs.outputStream, 1, HEADER_SIZE)
            = SubSeq(input.data, 1, HEADER_SIZE)
  /\ (DecoderAt /\ pc # "dec_start" /\ GoodHeader(din.data)) =>
       /\ Len(decOut) >= HEADER_SIZE
       /\ SubSeq(decOut, 1, HEADER_SIZE) = SubSeq(din.data, 1, HEADER_SIZE)

C12_Witness ==
  /\ pc = "enc_error"
  /\ Len(input.data) > HEADER_SIZE
  /\ U16At(input.data, 22) = 2
  /\ input.pos = HEADER_SIZE
  /\ obs.outputStream = <<>>

\* ------------------------------------------------------------------------
\* C13  The bits of ArithmeticEncoder::flush.
\* ------------------------------------------------------------------------
\* the bits of a byte, most significant first
BitsOfByte(byte) == [ k \in 1 .. 8 |-> (byte \div 2 ^ (8 - k)) % 2 ]

RECURSIVE BitsOfBytes(_)
BitsOfBytes(bytes) ==
  IF bytes = <<>> THEN <<>>
  ELSE BitsOfByte(Head(bytes)) \o BitsOfBytes(Tail(bytes))

\* the bits put so far into an OBitStream opened after the 44 header bytes:
\* those of the bytes written and those waiting in outputBuffer
OutBits(o) ==
  BitsOfBytes(SubSeq(o.outputStream, HEADER_SIZE + 1, Len(o.outputStream)))
  \o [ k \in 1 .. o.outputBufferPos |->
         (o.outputBuffer \div 2 ^ (o.outputBufferPos - k)) % 2 ]

\* n times the bit b
Repeat(b, n) == [ k \in 1 .. n |-> b ]

FlushStep == pc = "enc_flush" /\ pc' = "enc_bitflush"

FlushBit == IF enc.low < Int25 THEN 0 ELSE 1

\* C13 as stated: flush emits the bit b (0 if low < Int25, else 1) followed
\* by as many bits not-b as there were pending bits before the flush: 1 + the
\* number of pending bits in total.
C13_FlushBitsStated ==
  [][FlushStep =>
       OutBits(obs') = OutBits(obs) \o << FlushBit >>
                       \o Repeat(NotBit(FlushBit), enc.pending_bits)]_vars

\* C13 as amended: flush emits the bit b followed by pending_bits bits not-b,
\* pending_bits being the incremented counter: 2 + the number of pending bits
\* before the flush in total; it counts them in bits_written and leaves
\* pending_bits at 0.
C13_FlushBits ==
  [][FlushStep =>
       /\ OutBits(obs') = OutBits(obs) \o << FlushBit >>
                          \o Repeat(NotBit(FlushBit), enc.pending_bits + 1)
       /\ enc'.bits_written = enc.bits_written + 2 + enc.pending_bits
       /\ enc'.pending_bits = 0]_vars

C13_Witness ==
  /\ pc = "enc_bitflush"
  /\ encTrace[Len(encTrace)].pending_bits > 0
  /\ encTrace[Len(encTrace)].low >= Int25
  /\ enc.bits_written = Len(OutBits(obs))
  /\ enc.pending_bits = 0

\* ------------------------------------------------------------------------
\* C14  Bit packing of OBitStream.
\* ------------------------------------------------------------------------
\* the bit of a byte at bit position p (0 the least significant)
BitAt(byte, p) == (byte \div 2 ^ p) % 2

\* C14: after n puts and one or more flushes the stream holds ceil(n/8)
\* bytes, bit k of the sequence sits in byte k div 8 at position 7 - (k mod 8),
\* the unused low bits of the last byte are 0, and a further flush adds no
\* byte.
C14_BitPacking ==
  pc = "bits_flushed" =>
    LET n   == Len(putBits)
        out == obs.outputStream
    IN  /\ Len(out) = (n + 7) \div 8
        /\ \A k \in 0 .. n - 1 :
             BitAt(out[(k \div 8) + 1], 7 - (k % 8)) = putBits[k + 1]
        /\ \A k \in n .. 8 * Len(out) - 1 :
             BitAt(out[(k \div 8) + 1], 7 - (k % 8)) = 0
        /\ \A j \in 1 .. Len(out) : out[j] \in 0 .. 255
        /\ OFlush(obs) = obs

C14_Witness ==
  /\ pc = "bits_flushed"
  /\ Len(putBits) = 9
  /\ putBits[2] = 1
  /\ putBits[9] = 1
  /\ obs.outputStream[2] = 128

\* ------------------------------------------------------------------------
\* C15  The cumulative frequency tables.
\* ------------------------------------------------------------------------
\* the encoder and its model have just been constructed
EncoderConstructed == pc = "enc_loop" /\ encSyms = <<>>

\* C15: each of the four tables built by the constructor starts at 0, ends
\* at 32767 in entry 1025 and increases strictly, so the interval of every
\* symbol the encoder codes afterwards is nonempty.
C15_Tables ==
  /\ EncoderConstructed =>
       \A d \in 0 .. NUM_DIST - 1 :
         /\ CcftAt(d, 0) = 0
         /\ CcftAt(d, NUM_SYMBOLS) = MAX_FREQUENCY
         /\ \A j \in 0 .. NUM_SYMBOLS - 1 : CcftAt(d, j + 1) > CcftAt(d, j)
  /\ enc.symbols_written > 0 =>
       /\ 0 <= enc.symbol_low
       /\ enc.symbol_low < enc.symbol_high
       /\ enc.symbol_high <= MAX_FREQUENCY

C15_Witness ==
  /\ pc = "enc_flush"
  /\ enc.symbols_written = MaxSamples + 1
  /\ enc.model.active_dist > 0
  /\ enc.symbol_high = enc.symbol_low + 1

\* ------------------------------------------------------------------------
\* C16  Alternating +32 / -32.
\* ------------------------------------------------------------------------
\* the symbols of the samples +32, -32, +32, ...
Alternating(syms) ==
  \A k \in 1 .. Len(syms) : syms[k] = IF k % 2 = 1 THEN 512 ELSE 511

\* stdev < level, for a model whose every update so far was adaptive
StdevBelow(m, level) ==
  BCmp(m.variance, BMulSmall(BPow10(3 * m.scale), level * level)) < 0

AdaptiveStep == pc = "model" /\ mdl'.scale = mdl.scale + 1

\* omega + alpha stdev^2 + beta ds^2 for the model m, the symbol and the
\* value om of omega in thousandths, at the scale 10^(3 (m.scale + 1))
VolatilityUpdate(m, symbol, om) ==
  LET n == m.scale
      S == BMulSmall(BPow10(n), symbol)
      d == IF BCmp(S, m.mean) >= 0 THEN BSub(S, m.mean) ELSE BSub(m.mean, S)
  IN  BAdd(BAdd(BMulSmall(BPow10(3 * n), om), BMulSmall(m.variance, 725)),
           BMulSmall(BMul(BMul(d, d), BPow10(n)), 175))

ShiftLow(x) == (2 * x) % (MAX_CODE + 1)

ShiftHigh(x) == (2 * x + 1) % (MAX_CODE + 1)

\* The rules of C17 applied until none applies, from the registers lo, hi,
\* the counter pend and the bits out emitted so far.
RECURSIVE RenormRules(_, _, _, _)
RenormRules(lo, hi, pend, out) ==
  IF hi < Int50
  THEN RenormRules(ShiftLow(lo), ShiftHigh(hi), 0,
                   out \o << 0 >> \o Repeat(1, pend))
  ELSE IF lo >= Int50
  THEN RenormRules(ShiftLow(lo), ShiftHigh(hi), 0,
                   out \o << 1 >> \o Repeat(0, pend))
  ELSE IF lo >= Int25 /\ hi < Int75
  THEN RenormRules(ShiftLow(lo - Int25), ShiftHigh(hi - Int25), pend + 1, out)
  ELSE [ low |-> lo, high |-> hi, pending_bits |-> pend, bits |-> out ]

\* a step of encodeStream that calls encode
EncodeStep == pc = "enc_loop" /\ enc'.symbols_written = enc.symbols_written + 1

\* C17: every encode call leaves the registers, the counter pending_bits and
\* the bits of the output as the rules leave them: first applicable rule of
\* high < Int50 (0, then pending ones), low >= Int50 (1, then pending zeros),
\* low >= Int25 and high < Int75 (no bit, one more pending, minus Int25),
\* each followed by the masked shifts, until none applies.
C17_Renormalization ==
  [][EncodeStep =>
       LET r   == forward_range(enc.low, enc.high,
                                enc'.symbol_low, enc'.symbol_high)
           run == RenormRules(r[1], r[2], enc.pending_bits, <<>>)
       IN  /\ enc'.low = run.low
           /\ enc'.high = run.high
           /\ enc'.pending_bits = run.pending_bits
           /\ OutBits(obs') = OutBits(obs) \o run.bits
           /\ enc'.bits_written = enc.bits_written + Len(run.bits)]_vars

C17_Witness ==
  /\ pc = "enc_loop"
  /\ enc.symbols_written = MaxSamples
  /\ enc.pending_bits > 1
  /\ enc.bits_written > 8
  /\ encTrace[1].pending_bits > 0

\* ------------------------------------------------------------------------
\* C18  The outlier filter.
\* ------------------------------------------------------------------------
\* |symbol - mean| > 8.4 * stdev in the model state m
Outlier(m, symbol) ==
  LET S == BMulSmall(BPow10(m.scale), symbol)
      d == IF BCmp(S, m.mean) >= 0 THEN BSub(S, m.mean) ELSE BSub(m.mean, S)
  IN  BCmp(BMulSmall(BMul(BMul(d, d), BPow10(m.scale)), 100),
           BMulSmall(m.variance, 7056)) > 0

\* mean, stdev, active_dist and active_symbol_shift are those of m
Frozen(m, m1) ==
  /\ m1.mean = m.mean
  /\ m1.variance = m.variance
  /\ m1.scale = m.scale
  /\ m1.active_dist = m.active_dist
  /\ m1.active_symbol_shift = m.active_symbol_shift

\* a call of update_state on the Model on its own
ModelStep == pc = "model" /\ Len(mdlSyms') = Len(mdlSyms) + 1

\* C18: outlier_counter stays in 0 .. 3; the first, second and third
\* consecutive outlier each increment it and leave mean, stdev, active_dist
\* and active_symbol_shift unchanged; the fourth resets it to 0 and applies
\* the adaptive update, as does every symbol that is not an outlier.
C18_OutlierFilter ==
  [][ModelStep =>
       LET symbol == mdlSyms'[Len(mdlSyms')]
       IN  /\ mdl'.outlier_counter \in 0 .. 3
           /\ (Outlier(mdl, symbol) /\ mdl.outlier_counter < 3) =>
                /\ mdl'.outlier_counter = mdl.outlier_counter + 1
                /\ Frozen(mdl, mdl')
           /\ (Outlier(mdl, symbol) /\ mdl.outlier_counter = 3) =>
                /\ mdl'.outlier_counter = 0
                /\ mdl'.scale = mdl.scale + 1
                /\ mdl'.variance = VolatilityUpdate(mdl, symbol, omega)
           /\ ~Outlier(mdl, symbol) =>
                /\ mdl'.outlier_counter = 0
                /\ mdl'.scale = mdl.scale + 1
           /\ mdl'.outlier_counter # 0 => Frozen(mdl, mdl')]_vars

\* four consecutive outliers from the initial state: the fourth moved the
\* mean to 0.2 * 511 + 0.8 * 1023 = 920.6
C18_Witness ==
  /\ pc = "model"
  /\ mdlSyms = << 1023, 1023, 1023, 1023 >>
  /\ mdl.outlier_counter = 0
  /\ mdl.scale = 1
  /\ mdl.mean = << 9206 >>

\* ------------------------------------------------------------------------
\* C19  frequency_symbol inverts symbol_low_high.
\* ------------------------------------------------------------------------
\* C19: for every table, shift and symbol the index loc is in 0 .. 1024 and
\* is computed without wrapping, the interval <<lo, hi>> of the symbol is
\* nonempty, and frequency_symbol(f) is that symbol for every f with
\* lo <= f < hi: every frequency below MAX_FREQUENCY belongs to the interval
\* of exactly one symbol.
C19_LookupInverse ==
  /\ pc \in {"lookup_interval", "lookup_symbol"} =>
       /\ mdl.active_dist \in 0 .. NUM_DIST - 1
       /\ lookup.symbol + NUM_SYMBOLS + mdl.active_symbol_shift >= 0
       /\ SymbolLoc(mdl, lookup.symbol) \in 0 .. NUM_SYMBOLS - 1
       /\ lookup.low = CcftAt(mdl.active_dist, SymbolLoc(mdl, lookup.symbol))
       /\ 0 <= lookup.low
       /\ lookup.low < lookup.high
       /\ lookup.high <= MAX_FREQUENCY
  /\ pc = "lookup_interval" =>
       \A f \in lookup.low .. lookup.high - 1 :
         frequency_symbol(mdl, f) = lookup.symbol
  /\ pc = "lookup_symbol" =>
       /\ lookup.found = lookup.symbol
       /\ lookup.found \in 0 .. NUM_SYMBOLS - 1
       /\ symbol_low_high(mdl, lookup.found) = << lookup.low, lookup.high >>

C19_Witness ==
  /\ pc = "lookup_symbol"
  /\ mdl.active_dist = 3
  /\ mdl.active_symbol_shift = -513
  /\ lookup.symbol = 0
  /\ lookup.high > lookup.low + 1
  /\ lookup.f = lookup.high - 1
  /\ lookup.found = 0

\* ------------------------------------------------------------------------
\* C21  update_state after every symbol.
\* ------------------------------------------------------------------------
DecodeStep == pc = "dec_loop" /\ Len(decSyms') = Len(decSyms) + 1

Last(q) == q[Len(q)]

\* the encoder after it coded s with the model it had, then updated the model
CodedThenUpdated(s) ==
  [ encode(enc, s, obs).enc EXCEPT !.model = update_state(enc.model, s) ]

\* some decode of the symbol s with the model the decoder had, followed by
\* update_state(s)
DecodedThenUpdated(s) ==
  \E u \in UninitBytes :
    LET r == decode(dec, ibs, din, u)
    IN  /\ r.symbol = s
        /\ symbol_low_high(dec.model, s) = << dec'.symbol_low, dec'.symbol_high >>
        /\ dec' = [ r.dec EXCEPT !.model = update_state(dec.model, s) ]

\* C21 as stated: every step that encodes a symbol, the stop symbol included,
\* codes it with the model as it was and then calls update_state with it, and
\* so does every step that decodes a symbol.
C21_UpdateAfterEverySymbol ==
  [][ /\ EncodeStep => enc' = CodedThenUpdated(Last(encSyms'))
      /\ DecodeStep => DecodedThenUpdated(Last(decSyms')) ]_vars

\* C21: every step that encodes a sample's symbol codes it with the model as
\* it was and then calls update_state with it; the step that encodes the
\* stop symbol leaves the encoder's model as it was; every step that decodes
\* a symbol, the stop symbol included, decodes it with the model as it was
\* and then calls update_state with it.
C21_UpdateAfterSymbol ==
  [][ /\ EncodeStep =>
           LET s == Last(encSyms')
           IN  IF s = STOP_SYMBOL
               THEN /\ enc' = encode(enc, s, obs).enc
                    /\ enc'.model = enc.model
                    /\ pc' = "enc_flush"
               ELSE enc' = CodedThenUpdated(s)
      /\ DecodeStep => DecodedThenUpdated(Last(decSyms')) ]_vars

\* both programs have run on MaxSamples samples: the decoder's model is one
\* update_state(stop symbol) ahead of the encoder's
C21_Witness ==
  /\ pc = "done"
  /\ Len(encSyms) = MaxSamples + 1
  /\ EndsWithStop(encSyms)
  /\ decSyms = encSyms
  /\ enc.model = encTrace[MaxSamples].model
  /\ dec.model = update_state(enc.model, STOP_SYMBOL)
  /\ dec.model # enc.model

\* ------------------------------------------------------------------------
\* C22  No wrap of the 32-bit arithmetic.
\* ------------------------------------------------------------------------
\* (a * b) mod c for 0 <= b < 2^16, without forming a * b
MulMod(a, b, c) ==
  LET t == a * (b \div 256)
  IN  ((t % c) * 256 + a * (b % 256)) % c

\* the largest factor whose product with 0x7FFF is below 2^32
MaxFactor == U32DivInt([ hi |-> 65535, lo |-> 65535 ], MAX_FREQUENCY)

\* range * symbol_low and range * symbol_high of forward_range are below 2^32
\* for the interval of every symbol: high - low + 1 does not wrap and is at
\* most MaxFactor, and no table entry exceeds 0x7FFF
ForwardFits(low, high, m) ==
  /\ 0 <= low
  /\ low <= high
  /\ high - low + 1 <= MaxFactor
  /\ \A loc \in { 0, NUM_SYMBOLS } : CcftAt(m.active_dist, loc) <= MAX_FREQUENCY

\* value - low does not underflow and (value - low + 1) * 0x7FFF is below 2^32
BackwardFits(value, low) ==
  /\ IntLeU32(low, value)
  /\ U32LeInt(value, low + MaxFactor - 1)

\* ((v - low + 1) * 0x7FFF - 1) / range in unbounded integers, for an integer
\* low <= v
backward_value_Unbounded(v, low, high) ==
  LET range == high - low + 1
      x     == v - low + 1
  IN  MulDiv(x, MAX_FREQUENCY, range)
        - (IF MulMod(x, MAX_FREQUENCY, range) = 0 THEN 1 ELSE 0)

\* C22: whenever encode is about to be called, and whenever decode is about
\* to be called, the products of forward_range are below 2^32 for every
\* symbol; whenever decode is about to be called, value - low does not
\* underflow, (value - low + 1) * 0x7FFF is below 2^32 and backward_value
\* returns what unbounded integer arithmetic gives.
C22_NoWrap ==
  /\ pc = "enc_loop" => ForwardFits(enc.low, enc.high, enc.model)
  /\ pc = "dec_loop" =>
       /\ ForwardFits(dec.low, dec.high, dec.model)
       /\ BackwardFits(dec.value, dec.low)
       /\ backward_value(dec.value, dec.low, dec.high)
            = backward_value_Unbounded(dec.value.hi * 65536 + dec.value.lo,
                                       dec.low, dec.high)

\* the part of C22 about the encoder, and about low and high of the decoder
C22_ForwardNoWrap ==
  /\ pc = "enc_loop" => ForwardFits(enc.low, enc.high, enc.model)
  /\ pc = "dec_loop" => ForwardFits(dec.low, dec.high, dec.model)

\* the part of C22 about value, while no indeterminate bit was read
C22_BackwardNoWrapInStream ==
  (pc = "dec_loop" /\ pastEnd = 0) =>
    /\ BackwardFits(dec.value, dec.low)
    /\ backward_value(dec.value, dec.low, dec.high)
         = backward_value_Unbounded(dec.value.hi * 65536 + dec.value.lo,
                                    dec.low, dec.high)

\* ------------------------------------------------------------------------
\* C23  The bits after the flush bits.
\* ------------------------------------------------------------------------
\* C23: when decodeStream is run on the encoder's file and run again on a
\* file that agrees with it up to the last bit of the encoder's flush and
\* differs afterwards (padding bits, trailing bytes, what the decoder shifts
\* in once the bytes are exhausted), the second run returns the symbols of
\* the first, in the same order, and writes the same output.
C23_TailIndependent ==
  first.done =>
    /\ IsPrefix(decSyms, first.syms)
    /\ pc = "done" => (decSyms = first.syms /\ decOut = first.out)

\* ------------------------------------------------------------------------
\* C24  The renormalization loops stop.
\* ------------------------------------------------------------------------
\* The number of iterations of the while (true) loop of encode started with
\* the registers of e, counted from n; the count stops at CODE_BITS + 1.
RECURSIVE EncodeIters(_, _)
EncodeIters(e, n) ==
  IF n > CODE_BITS THEN n
  ELSE IF e.high < Int50 \/ e.low >= Int50
  THEN EncodeIters(EncShift(e), n + 1)
  ELSE IF e.low >= Int25 /\ e.high < Int75
  THEN EncodeIters(EncShift([ e EXCEPT !.low = e.low - Int25,
                                       !.high = e.high - Int25 ]), n + 1)
  ELSE n

\* The same for the loop of decode, started in the state c of the decoder
\* and its bit source.
RECURSIVE DecodeIters(_, _)
DecodeIters(c, n) ==
  LET d == c.dec
  IN  IF n > CODE_BITS THEN n
      ELSE IF d.high < Int50 THEN DecodeIters(DecShift(c, 0), n + 1)
      ELSE IF d.low >= Int50 THEN DecodeIters(DecShift(c, Int50), n + 1)
      ELSE IF d.low >= Int25 /\ d.high < Int75
      THEN DecodeIters(DecShift(c, Int25), n + 1)
      ELSE n

\* the registers on entry of the loop when symbol is coded from low, high
Narrowed(r, symbol) ==
  LET lh == symbol_low_high(r.model, symbol)
      lo == forward_range(r.low, r.high, lh[1], lh[2])
  IN  [ r EXCEPT !.low = lo[1], !.high = lo[2] ]

EncodeItersOf(symbol) == EncodeIters(Narrowed(enc, symbol), 0)

DecodeItersOf(symbol, u) ==
  DecodeIters([ dec |-> Narrowed(dec, symbol), ibs |-> ibs, st |-> din,
                b |-> u, miss |-> 0 ], 0)

\* the symbol that decode finds in the current state of the decoder
DecodedSymbol ==
  frequency_symbol(dec.model, backward_value(dec.value, dec.low, dec.high))

\* C24: whenever encode is about to be called, its loop stops after at most
\* 17 iterations for every symbol; whenever decode is about to be called,
\* its loop stops after at most 17 iterations for the symbol it finds and
\* for the two symbols at the ends of the alphabet, whether or not the bit
\* source is exhausted and whatever the content of b.
C24_LoopBound ==
  /\ pc = "enc_loop" =>
       \A symbol \in 0 .. NUM_SYMBOLS - 1 : EncodeItersOf(symbol) <= CODE_BITS
  /\ pc = "dec_loop" =>
       \A symbol \in { DecodedSymbol, 0, NUM_SYMBOLS - 1 }, u \in UninitBytes :
         DecodeItersOf(symbol, u) <= CODE_BITS

\* the decoder has returned from decode calls that read past the end of the
\* payload, and the symbol it finds next takes at least 8 iterations
C24_Witness ==
  /\ pc = "dec_loop"
  /\ pastEnd > CODE_BITS
  /\ Len(decSyms) > 1
  /\ DecodeItersOf(DecodedSymbol, 255) >= 8

\* the encoder has coded symbols, and one symbol takes 17 iterations from here
C24_WitnessEnc ==
  /\ pc = "enc_loop"
  /\ Len(encSyms) > 1
  /\ \E symbol \in 0 .. NUM_SYMBOLS - 1 : EncodeItersOf(symbol) = CODE_BITS

====
